---- MODULE Spec2Model ----
(***************************************************************************)
(* The language-model registry of src/lib/ai/models.ts: the catalog        *)
(* (allModels, modelMetadata, modelInstanceLookup), the seed loader, the   *)
(* refresh coordinator (refreshModels) and the resolver (getModel).        *)
(*                                                                         *)
(* Strings are sequences of tokens: "openai" is <<"openai">> and the       *)
(* template `${provider}::${name}` is concatenation with the token "::".   *)
(* No token other than "::" begins or ends with ':', so concatenation and  *)
(* startsWith on token sequences agree with the code's string operations.  *)
(* An optional value (a `?:` field, undefined) is None or Some(v).         *)
(*                                                                         *)
(* The component-file module of src/lib/component-config/index.ts:         *)
(* resolveFilePath with its helpers, and createComponentFile over a disk   *)
(* of files and directories.                                               *)
(***************************************************************************)
EXTENDS Integers, Sequences, FiniteSets, TLC

\* ------------------------------------------------------------------ bounds
\* Clock steps the model takes (each of TickMs milliseconds).
MaxTicks == 1
\* Refresh rounds that may be started in one behaviour.
MaxRounds == 2
\* Longest model list a provider's listing endpoint returns.
MaxList == 2
\* Longest relative path a component-file request names, in segments.
MaxSegments == 3
\* The request contexts that call refresh().
Callers == {"c1", "c2"}

\* ----------------------------------------------------------------- strings
Str(s) == <<s>>
None == <<>>
Some(v) == <<v>>
\* a ?? b
Coalesce(opt, default) == IF opt = None THEN default ELSE opt[1]
EmptyStr == <<>>
\* a || b on optional strings: undefined and "" are both falsy
OrElse(opt, default) ==
  IF opt = None THEN default ELSE IF opt[1] = EmptyStr THEN default ELSE opt[1]
startsWith(s, prefix) ==
  /\ Len(s) >= Len(prefix)
  /\ SubSeq(s, 1, Len(prefix)) = prefix

\* -------------------------------------------------------------------- maps
EmptyMap == [k \in {} |-> None]
Has(f, k) == k \in DOMAIN f
Put(f, k, v) == (k :> v) @@ f
Without(f, ks) == [x \in (DOMAIN f) \ ks |-> f[x]]
Range(seq) == {seq[i] : i \in 1..Len(seq)}

\* --------------------------------------------------------- provider tables
\* providerFactories: the providers that have a factory.
providerFactories ==
  {Str("openai"), Str("google"), Str("anthropic"), Str("xai"), Str("ollama"),
   Str("groq"), Str("openRouter")}

\* Both provider tables are object literals, so table[provider] also finds
\* what every object inherits from Object.prototype. InheritedKey is such an
\* identifier: table["__proto__"] reads Object.prototype itself, which is
\* neither nullish nor callable, so calling what was read throws a TypeError.
InheritedKey == Str("__proto__")

\* The per-provider objects of allModels are object literals as well. In a
\* store, models[InheritedKey] stands for the prototype such an object was
\* given by `models["__proto__"] = handle`: it is read back by
\* models["__proto__"] and it is no key of the object, so Object.keys and
\* Object.entries leave it out. An object that was given none reads back
\* Object.prototype.
OwnKeys(models) == (DOMAIN models) \ {InheritedKey}
ObjectPrototype == [p |-> Str("Object"), n |-> Str("prototype"), g |-> 0]

\* providerKeyCheckers: the environment variable each static checker hands to
\* hasValidKey ("" for ollama, whose checker is () => true).
providerKeyCheckers ==
  [p \in {Str("openai"), Str("google"), Str("anthropic"), Str("xai"),
          Str("groq"), Str("openRouter"), Str("ollama")} |->
     CASE p = Str("openai") -> "OPENAI_API_KEY"
       [] p = Str("google") -> "GOOGLE_GENERATIVE_AI_API_KEY"
       [] p = Str("anthropic") -> "ANTHROPIC_API_KEY"
       [] p = Str("xai") -> "XAI_API_KEY"
       [] p = Str("groq") -> "GROQ_API_KEY"
       [] p = Str("openRouter") -> "OPENROUTER_API_KEY"
       [] OTHER -> ""]
EnvVars == {providerKeyCheckers[p] : p \in DOMAIN providerKeyCheckers} \ {""}

\* process.env values: an unset variable reads undefined.
Unset == "<undefined>"
hasValidKey(key) == key # Unset /\ key # "" /\ key # "****"

imageInputSupportedProviders ==
  {Str("google"), Str("xai"), Str("openai"), Str("anthropic")}

modelKey(provider, name) == provider \o Str("::") \o name

fallbackToolUnsupportedKeys ==
  {modelKey(Str("openai"), Str("o4-mini")),
   modelKey(Str("ollama"), Str("gemma3:1b")),
   modelKey(Str("ollama"), Str("gemma3:4b")),
   modelKey(Str("ollama"), Str("gemma3:12b")),
   modelKey(Str("openRouter"), Str("openai/gpt-oss-20b:free")),
   modelKey(Str("openRouter"), Str("qwen/qwen3-8b:free")),
   modelKey(Str("openRouter"), Str("qwen/qwen3-14b:free")),
   modelKey(Str("openRouter"), Str("deepseek/deepseek-r1-0528:free")),
   modelKey(Str("openRouter"), Str("google/gemini-2.0-flash-exp:free"))}

\* ----------------------------------------------------------------- catalog
\* A store is the three module-level collections together.
Store(am, mm, lk) ==
  [allModels |-> am, modelMetadata |-> mm, modelInstanceLookup |-> lk]
EmptyStore == Store(EmptyMap, EmptyMap, EmptyMap)

\* RegisterOptions with nothing supplied.
NoOptions ==
  [displayName |-> None, apiName |-> None, isToolCallUnsupported |-> None,
   isImageInputUnsupported |-> None, model |-> None]

\* A provider factory call: every call builds a new handle instance. An
\* instance is told apart by the provider, the API name it was built for and
\* an index; a new instance takes the least index that no instance known to
\* the WeakMap carries, so it differs from every instance that is still
\* alive.
NewHandle(S, provider, apiName) ==
  LET used == {h.g : h \in {x \in DOMAIN S.modelInstanceLookup :
                              x.p = provider /\ x.n = apiName}}
  IN [p |-> provider, n |-> apiName,
      g |-> CHOOSE k \in 1..(Cardinality(used) + 1) :
              k \notin used /\ \A j \in 1..(k - 1) : j \in used]

\* A registerModel that keeps the display name and the flags of the key's
\* earlier record where the new registration supplies none.
registerModelMerging(S, provider, name, options) ==
  LET modelInstance ==
        IF options.model # None THEN options.model
        ELSE IF provider \in providerFactories
             THEN Some(NewHandle(S, provider, OrElse(options.apiName, name)))
             ELSE None
      key == modelKey(provider, name)
      models == IF Has(S.allModels, provider) THEN S.allModels[provider]
                ELSE EmptyMap
      old == IF Has(S.modelMetadata, key) THEN S.modelMetadata[key]
             ELSE [displayName |-> None,
                   isToolCallUnsupported |->
                     key \in fallbackToolUnsupportedKeys,
                   isImageInputUnsupported |->
                     provider \notin imageInputSupportedProviders]
  IN IF modelInstance = None THEN S
     ELSE Store(
       Put(S.allModels, provider, Put(models, name, modelInstance[1])),
       Put(S.modelMetadata, key,
           [displayName |-> IF options.displayName # None
                            THEN options.displayName ELSE old.displayName,
            isToolCallUnsupported |->
              Coalesce(options.isToolCallUnsupported,
                       old.isToolCallUnsupported),
            isImageInputUnsupported |->
              Coalesce(options.isImageInputUnsupported,
                       old.isImageInputUnsupported)]),
       Put(S.modelInstanceLookup, modelInstance[1], key))

\* A registerModel whose tool-call flag is false when none is supplied.
registerModelToolSupportedByDefault(S, provider, name, options) ==
  LET modelInstance ==
        IF options.model # None THEN options.model
        ELSE IF provider \in providerFactories
             THEN Some(NewHandle(S, provider, OrElse(options.apiName, name)))
             ELSE None
      key == modelKey(provider, name)
      models == IF Has(S.allModels, provider) THEN S.allModels[provider]
                ELSE EmptyMap
  IN IF modelInstance = None THEN S
     ELSE Store(
       Put(S.allModels, provider, Put(models, name, modelInstance[1])),
       Put(S.modelMetadata, key,
           [displayName |-> options.displayName,
            isToolCallUnsupported |->
              Coalesce(options.isToolCallUnsupported, FALSE),
            isImageInputUnsupported |->
              Coalesce(options.isImageInputUnsupported,
                       provider \notin imageInputSupportedProviders)]),
       Put(S.modelInstanceLookup, modelInstance[1], key))

\* A registerModel that takes a flag supplied as false for a flag that was
\* not supplied (|| in the place of ??).
registerModelFalsyFlags(S, provider, name, options) ==
  LET modelInstance ==
        IF options.model # None THEN options.model
        ELSE IF provider \in providerFactories
             THEN Some(NewHandle(S, provider, OrElse(options.apiName, name)))
             ELSE None
      key == modelKey(provider, name)
      models == IF Has(S.allModels, provider) THEN S.allModels[provider]
                ELSE EmptyMap
  IN IF modelInstance = None THEN S
     ELSE Store(
       Put(S.allModels, provider, Put(models, name, modelInstance[1])),
       Put(S.modelMetadata, key,
           [displayName |-> options.displayName,
            isToolCallUnsupported |->
              options.isToolCallUnsupported = Some(TRUE)
                \/ key \in fallbackToolUnsupportedKeys,
            isImageInputUnsupported |->
              options.isImageInputUnsupported = Some(TRUE)
                \/ provider \notin imageInputSupportedProviders]),
       Put(S.modelInstanceLookup, modelInstance[1], key))

registerModel(S, provider, name, options) ==
  LET hasFactory == provider \in providerFactories
      modelInstance ==
        IF options.model # None THEN options.model
        ELSE IF hasFactory
             THEN Some(NewHandle(S, provider, OrElse(options.apiName, name)))
             ELSE None
      key == modelKey(provider, name)
      models == IF Has(S.allModels, provider) THEN S.allModels[provider]
                ELSE EmptyMap
  IN IF modelInstance = None THEN S
     ELSE Store(
       Put(S.allModels, provider, Put(models, name, modelInstance[1])),
       Put(S.modelMetadata, key,
           [displayName |-> options.displayName,
            isToolCallUnsupported |->
              Coalesce(options.isToolCallUnsupported,
                       key \in fallbackToolUnsupportedKeys),
            isImageInputUnsupported |->
              Coalesce(options.isImageInputUnsupported,
                       provider \notin imageInputSupportedProviders)]),
       Put(S.modelInstanceLookup, modelInstance[1], key))

\* A clearProvider that drops the metadata records of every provider.
clearProviderDropsAllMetadata(S, provider) ==
  Store(Without(S.allModels, {provider}), EmptyMap, S.modelInstanceLookup)

clearProvider(S, provider) ==
  Store(Without(S.allModels, {provider}),
        Without(S.modelMetadata,
                {key \in DOMAIN S.modelMetadata :
                   startsWith(key, provider \o Str("::"))}),
        S.modelInstanceLookup)

\* -------------------------------------------------------------------- seed
\* ModelRegistration literals of the seed table.
Reg(name, displayName, image) ==
  [name |-> Str(name), displayName |-> displayName, apiName |-> None,
   isToolCallUnsupported |-> None, isImageInputUnsupported |-> image]
M(name) == Reg(name, None, None)
MD(name, displayName) == Reg(name, Some(Str(displayName)), None)
MI(name, displayName) == Reg(name, Some(Str(displayName)), Some(FALSE))

staticModelSeed ==
  << [provider |-> Str("openai"),
      models |-> << M("gpt-4.1"), M("gpt-4.1-mini"), M("o4-mini"), M("o3"),
                    M("gpt-5"), M("gpt-5-mini"), M("gpt-5-nano") >>],
     [provider |-> Str("google"),
      models |-> << M("gemini-2.5-flash-lite"), M("gemini-2.5-flash"),
                    M("gemini-2.5-pro") >>],
     [provider |-> Str("anthropic"),
      models |-> << MD("claude-sonnet-4-5", "sonnet-4.5"),
                    MD("claude-opus-4-1", "opus-4.1") >>],
     [provider |-> Str("xai"),
      models |-> << MD("grok-4-fast-non-reasoning", "grok-4-fast"),
                    M("grok-4"), M("grok-3"), M("grok-3-mini") >>],
     [provider |-> Str("ollama"),
      models |-> << M("gemma3:1b"), M("gemma3:4b"), M("gemma3:12b") >>],
     [provider |-> Str("groq"),
      models |-> << MI("moonshotai/kimi-k2-instruct", "kimi-k2-instruct"),
                    MI("meta-llama/llama-4-scout-17b-16e-instruct",
                       "llama-4-scout-17b"),
                    MI("openai/gpt-oss-20b", "gpt-oss-20b"),
                    MI("openai/gpt-oss-120b", "gpt-oss-120b"),
                    MI("qwen/qwen3-32b", "qwen3-32b") >>],
     [provider |-> Str("openRouter"),
      models |-> << MI("openai/gpt-oss-20b:free", "gpt-oss-20b:free"),
                    MI("qwen/qwen3-8b:free", "qwen3-8b:free"),
                    MI("qwen/qwen3-14b:free", "qwen3-14b:free"),
                    MI("qwen/qwen3-coder:free", "qwen3-coder:free"),
                    MI("deepseek/deepseek-r1-0528:free", "deepseek-r1:free"),
                    MI("deepseek/deepseek-chat-v3-0324:free",
                       "deepseek-v3:free"),
                    MI("google/gemini-2.0-flash-exp:free",
                       "gemini-2.0-flash-exp:free") >>] >>

\* models.forEach(entry => registerModel(provider, entry.name, {...})) of the
\* seed loop: the tool-call flag is always passed explicitly.
RECURSIVE SeedProvider(_, _, _, _)
SeedProvider(S, provider, models, i) ==
  IF i > Len(models) THEN S
  ELSE SeedProvider(
         registerModel(S, provider, models[i].name,
           [displayName |-> models[i].displayName,
            apiName |-> models[i].apiName,
            isToolCallUnsupported |->
              Some(Coalesce(models[i].isToolCallUnsupported,
                            modelKey(provider, models[i].name)
                              \in fallbackToolUnsupportedKeys)),
            isImageInputUnsupported |-> models[i].isImageInputUnsupported,
            model |-> None]),
         provider, models, i + 1)

\* Object.entries(staticModelSeed).forEach(...). (The comparison only makes
\* TLC compute one provider's store before it goes on to the next.)
RECURSIVE SeedStatic(_, _)
SeedStatic(S, i) ==
  IF i > Len(staticModelSeed) THEN S
  ELSE LET T == SeedProvider(S, staticModelSeed[i].provider,
                             staticModelSeed[i].models, 1)
       IN IF T = T THEN SeedStatic(T, i + 1) ELSE S

\* ------------------------------------------- dynamically configured providers
\* OPENAI_COMPATIBLE_DATA after openaiCompatibleModelsSafeParse: a list of
\* provider descriptors (identifier, API key, models); absent or invalid input
\* is the empty list. The identifier is an opaque string.
LabProvider ==
  << [provider |-> <<"ollama", "::", "lab">>, apiKey |-> "sk-lab",
      models |-> << [name |-> Str("phi"), supportsTools |-> FALSE] >>] >>

\* createOpenAICompatibleModels: one pre-built handle per configured model
\* (generation 0: not built by a provider factory).
CompatHandle(provider, name) == [p |-> provider, n |-> name, g |-> 0]
openaiCompatibleUnsupportedModels(config) ==
  {CompatHandle(config[i].provider, config[i].models[j].name) :
     <<i, j>> \in {ij \in (1..Len(config)) \X (1..MaxList) :
                     /\ ij[2] <= Len(config[ij[1]].models)
                     /\ ~config[ij[1]].models[ij[2]].supportsTools}}

\* providerHasExplicitKey after the startup loop (a later descriptor of the
\* same provider overwrites an earlier one).
LastIndexOf(config, p) ==
  CHOOSE i \in 1..Len(config) :
    /\ config[i].provider = p
    /\ \A j \in (i + 1)..Len(config) : config[j].provider # p
providerHasExplicitKey(config) ==
  [p \in {config[i].provider : i \in 1..Len(config)} |->
     hasValidKey(config[LastIndexOf(config, p)].apiKey)]

\* Object.entries(models).forEach(([name, model]) => registerModel(...)) for
\* one configured provider.
RECURSIVE SeedCompatProvider(_, _, _, _)
SeedCompatProvider(S, config, i, j) ==
  IF j > Len(config[i].models) THEN S
  ELSE LET provider == config[i].provider
           name == config[i].models[j].name
           model == CompatHandle(provider, name)
       IN SeedCompatProvider(
            registerModel(S, provider, name,
              [displayName |-> Some(name), apiName |-> None,
               isToolCallUnsupported |->
                 Some(model \in openaiCompatibleUnsupportedModels(config)),
               isImageInputUnsupported |-> Some(FALSE),
               model |-> Some(model)]),
            config, i, j + 1)

RECURSIVE SeedCompat(_, _, _)
SeedCompat(S, config, i) ==
  IF i > Len(config) THEN S
  ELSE SeedCompat(SeedCompatProvider(S, config, i, 1), config, i + 1)

\* The catalog when module initialisation has run.
StartupStore(config) == SeedCompat(SeedStatic(EmptyStore, 1), config, 1)

fallbackProvider == Str("openai")
fallbackModelName == Str("gpt-4.1")

\* A fallbackModel that builds the handle when the key is absent and does
\* not register it.
fallbackModelNoRegister(S) ==
  IF /\ Has(S.allModels, fallbackProvider)
     /\ Has(S.allModels[fallbackProvider], fallbackModelName)
  THEN [model |-> Some(S.allModels[fallbackProvider][fallbackModelName]),
        store |-> S]
  ELSE [model |-> Some(NewHandle(S, fallbackProvider, fallbackModelName)),
        store |-> S]

\* fallbackModel(): the handle returned and the store afterwards. A missing
\* handle (None) is the thrown "Fallback model is not available".
fallbackModel(S) ==
  IF /\ Has(S.allModels, fallbackProvider)
     /\ Has(S.allModels[fallbackProvider], fallbackModelName)
  THEN [model |-> Some(S.allModels[fallbackProvider][fallbackModelName]),
        store |-> S]
  ELSE IF fallbackProvider \in providerFactories
  THEN LET created == NewHandle(S, fallbackProvider, fallbackModelName)
       IN [model |-> Some(created),
           store |-> registerModel(S, fallbackProvider, fallbackModelName,
                       [NoOptions EXCEPT !.model = Some(created)])]
  ELSE [model |-> None, store |-> S]

\* A getModel without the catalog lookup: it builds a handle whenever the
\* provider has a factory.
getModelAlwaysBuilds(S, ref) ==
  IF ref = None THEN fallbackModel(S)
  ELSE IF ref[1].provider \in providerFactories
  THEN LET fallback == NewHandle(S, ref[1].provider, ref[1].model)
       IN [model |-> Some(fallback),
           store |-> registerModel(S, ref[1].provider, ref[1].model,
                       [NoOptions EXCEPT !.model = Some(fallback)])]
  ELSE fallbackModel(S)

\* A getModel that catalogues the fallback handle under the referenced key
\* when the provider has no factory.
getModelCataloguesFallback(S, ref) ==
  IF ref = None THEN fallbackModel(S)
  ELSE IF /\ Has(S.allModels, ref[1].provider)
          /\ Has(S.allModels[ref[1].provider], ref[1].model)
  THEN [model |-> Some(S.allModels[ref[1].provider][ref[1].model]),
        store |-> S]
  ELSE IF ref[1].provider = InheritedKey
  THEN [model |-> None, store |-> S]
  ELSE IF ref[1].provider \in providerFactories
  THEN LET fallback == NewHandle(S, ref[1].provider, ref[1].model)
       IN [model |-> Some(fallback),
           store |-> registerModel(S, ref[1].provider, ref[1].model,
                       [NoOptions EXCEPT !.model = Some(fallback)])]
  ELSE LET got == fallbackModel(S)
       IN [model |-> got.model,
           store |-> registerModel(got.store, ref[1].provider, ref[1].model,
                       [NoOptions EXCEPT !.model = got.model])]

\* customModelProvider.getModel(model): `ref` is None for a call without a
\* reference, else Some([provider, model]). providerModels?.[name] finds the
\* entry of the name or, for InheritedKey, the prototype of the provider's
\* object, which is returned as it is. A missing handle (None) is a thrown
\* error: providerFactories[provider]?.(name) calls what it read unless that
\* is nullish, and what it reads for InheritedKey is not callable.
getModel(S, ref) ==
  IF ref = None THEN fallbackModel(S)
  ELSE LET provider == ref[1].provider
           name == ref[1].model
       IN IF Has(S.allModels, provider) /\ Has(S.allModels[provider], name)
          THEN [model |-> Some(S.allModels[provider][name]), store |-> S]
          ELSE IF Has(S.allModels, provider) /\ name = InheritedKey
          THEN [model |-> Some(ObjectPrototype), store |-> S]
          ELSE IF provider = InheritedKey
          THEN [model |-> None, store |-> S]
          ELSE IF provider \in providerFactories
          THEN LET fallback == NewHandle(S, provider, name)
               IN [model |-> Some(fallback),
                   store |-> registerModel(S, provider, name,
                               [NoOptions EXCEPT !.model = Some(fallback)])]
          ELSE fallbackModel(S)

\* An isToolCallUnsupportedModel that looks the metadata up under the key
\* the handle was built for, without consulting the reverse index.
isToolCallUnsupportedModelByName(S, model) ==
  LET key == modelKey(model.p, model.n)
  IN IF Has(S.modelMetadata, key)
     THEN S.modelMetadata[key].isToolCallUnsupported
     ELSE FALSE

\* An isToolCallUnsupportedModel that falls back on the deny list when the
\* key has no metadata record.
isToolCallUnsupportedModelDenyList(S, model) ==
  IF ~Has(S.modelInstanceLookup, model) THEN FALSE
  ELSE LET key == S.modelInstanceLookup[model]
       IN IF Has(S.modelMetadata, key)
          THEN S.modelMetadata[key].isToolCallUnsupported
          ELSE key \in fallbackToolUnsupportedKeys

\* isToolCallUnsupportedModel(model): an unknown handle and a key without a
\* metadata record both read false.
isToolCallUnsupportedModel(S, model) ==
  IF ~Has(S.modelInstanceLookup, model) THEN FALSE
  ELSE LET key == S.modelInstanceLookup[model]
       IN IF Has(S.modelMetadata, key)
          THEN S.modelMetadata[key].isToolCallUnsupported
          ELSE FALSE

\* A checkProviderAPIKey that consults the override map only.
checkProviderAPIKeyExplicitOnly(provider, explicit, env) ==
  IF Has(explicit, provider) THEN Some(explicit[provider]) ELSE Some(TRUE)

\* checkProviderAPIKey(provider): Some(b) when it returns b, None when it
\* throws (the checker read from the table is not callable). The refresh
\* task and the summary call it for providers of the fetch table and of the
\* catalog, for which it returns.
checkProviderAPIKey(provider, explicit, env) ==
  IF Has(explicit, provider) THEN Some(explicit[provider])
  ELSE IF Has(providerKeyCheckers, provider)
       THEN (IF providerKeyCheckers[provider] = "" THEN Some(TRUE)
             ELSE Some(hasValidKey(env[providerKeyCheckers[provider]])))
       ELSE IF provider = InheritedKey THEN None
       ELSE Some(TRUE)

\* ------------------------------------------------------------------ summary
\* String.prototype.localeCompare: the strings the catalog can hold as a
\* provider identifier, a model name or a display name, case-folded, in the
\* order of the default collation (punctuation before digits before letters;
\* - before : before . before /).
CollationOrder ==
  << Str("anthropic"), Str("claude-opus-4-1"), Str("claude-sonnet-4-5"),
     Str("deepseek-r1:free"), Str("deepseek-v3:free"),
     Str("deepseek/deepseek-chat-v3-0324:free"),
     Str("deepseek/deepseek-r1-0528:free"), Str("gemini-2.0-flash-exp:free"),
     Str("gemini-2.5-flash"), Str("gemini-2.5-flash-lite"),
     Str("gemini-2.5-pro"), Str("gemma3:12b"), Str("gemma3:1b"),
     Str("gemma3:4b"), Str("google"),
     Str("google/gemini-2.0-flash-exp:free"), Str("gpt-4.1"),
     Str("gpt-4.1-mini"), Str("gpt-5"), Str("gpt-5-mini"), Str("gpt-5-nano"),
     Str("gpt-6"), Str("gpt-oss-120b"), Str("gpt-oss-20b"),
     Str("gpt-oss-20b:free"), Str("grok-3"), Str("grok-3-mini"),
     Str("grok-4"), Str("grok-4-fast"), Str("grok-4-fast-non-reasoning"),
     Str("groq"), Str("kimi-k2-instruct"), Str("llama-4-scout-17b"),
     Str("m1"), Str("meta-llama/llama-4-scout-17b-16e-instruct"),
     Str("mistral"), Str("moonshotai/kimi-k2-instruct"), Str("o3"),
     Str("o4-mini"), Str("ollama"), <<"ollama", "::", "lab">>, Str("openai"),
     Str("openai/gpt-oss-120b"), Str("openai/gpt-oss-20b"),
     Str("openai/gpt-oss-20b:free"), Str("openrouter"), Str("opus-4.1"),
     Str("phi"), Str("qwen/qwen3-14b:free"), Str("qwen/qwen3-32b"),
     Str("qwen/qwen3-8b:free"), Str("qwen/qwen3-coder:free"),
     Str("qwen3-14b:free"), Str("qwen3-32b"), Str("qwen3-8b:free"),
     Str("qwen3-coder:free"), Str("sonnet-4.5"), Str("xai") >>

\* The upper-case letters that occur, folded.
Fold(s) ==
  [i \in 1..Len(s) |->
     CASE s[i] = "Mistral" -> "mistral"
       [] s[i] = "openRouter" -> "openrouter"
       [] OTHER -> s[i]]
CollationRank ==
  [s \in Range(CollationOrder) |->
     CHOOSE i \in 1..Len(CollationOrder) : CollationOrder[i] = s]
PrimaryRank(s) == CollationRank[Fold(s)]

\* A comparison by UTF-16 code units, as `<` on strings gives it.
codeUnitCompare(a, b, sensitivity) ==
  LET order ==
      << Str("Mistral"), Str("anthropic"), Str("claude-opus-4-1"),
         Str("claude-sonnet-4-5"), Str("deepseek-r1:free"),
         Str("deepseek-v3:free"), Str("deepseek/deepseek-chat-v3-0324:free"),
         Str("deepseek/deepseek-r1-0528:free"), Str("gemini-2.0-flash-exp:free"),
         Str("gemini-2.5-flash"), Str("gemini-2.5-flash-lite"),
         Str("gemini-2.5-pro"), Str("gemma3:12b"), Str("gemma3:1b"),
         Str("gemma3:4b"), Str("google"),
         Str("google/gemini-2.0-flash-exp:free"), Str("gpt-4.1"),
         Str("gpt-4.1-mini"), Str("gpt-5"), Str("gpt-5-mini"), Str("gpt-5-nano"),
         Str("gpt-6"), Str("gpt-oss-120b"), Str("gpt-oss-20b"),
         Str("gpt-oss-20b:free"), Str("grok-3"), Str("grok-3-mini"),
         Str("grok-4"), Str("grok-4-fast"), Str("grok-4-fast-non-reasoning"),
         Str("groq"), Str("kimi-k2-instruct"), Str("llama-4-scout-17b"),
         Str("m1"), Str("meta-llama/llama-4-scout-17b-16e-instruct"),
         Str("moonshotai/kimi-k2-instruct"), Str("o3"), Str("o4-mini"),
         Str("ollama"), <<"ollama", "::", "lab">>, Str("openRouter"),
         Str("openai"), Str("openai/gpt-oss-120b"), Str("openai/gpt-oss-20b"),
         Str("openai/gpt-oss-20b:free"), Str("opus-4.1"), Str("phi"),
         Str("qwen/qwen3-14b:free"), Str("qwen/qwen3-32b"),
         Str("qwen/qwen3-8b:free"), Str("qwen/qwen3-coder:free"),
         Str("qwen3-14b:free"), Str("qwen3-32b"), Str("qwen3-8b:free"),
         Str("qwen3-coder:free"), Str("sonnet-4.5"), Str("xai") >>
      at(s) == CHOOSE i \in 1..Len(order) : order[i] = s
  IN IF at(a) < at(b) THEN -1 ELSE IF at(a) > at(b) THEN 1 ELSE 0

\* a.localeCompare(b, undefined, {sensitivity}): letters of different case
\* are equal under "base"; under the default ("variant") the lower-case one
\* comes first when nothing else differs.
localeCompare(a, b, sensitivity) ==
  LET ra == PrimaryRank(a)
      rb == PrimaryRank(b)
  IN IF ra < rb THEN -1
     ELSE IF ra > rb THEN 1
     ELSE IF sensitivity = "base" \/ a = b THEN 0
     ELSE IF Fold(a) = a THEN -1 ELSE 1

\* One model of the summary: Object.keys(models).map(name => {...}).
SummaryEntry(S, provider, name) ==
  LET key == modelKey(provider, name)
      known == Has(S.modelMetadata, key)
      meta == S.modelMetadata[key]
  IN [name |-> name,
      displayName |->
        IF known /\ meta.displayName # None /\ meta.displayName[1] # EmptyStr
           /\ meta.displayName[1] # name
        THEN meta.displayName ELSE None,
      isToolCallUnsupported |->
        IF known THEN meta.isToolCallUnsupported ELSE FALSE,
      isImageInputUnsupported |->
        IF known THEN meta.isImageInputUnsupported
        ELSE provider \notin imageInputSupportedProviders]

\* labelA = a.displayName || a.name
Label(entry) ==
  IF entry.displayName # None /\ entry.displayName[1] # EmptyStr
  THEN entry.displayName[1] ELSE entry.name

\* entries.sort((a, b) => labelA.localeCompare(labelB, undefined,
\* {sensitivity: "base"})), as an insertion sort. The labels of one provider
\* never compare equal here, so the order the keys were inserted in does not
\* show in the result.
RECURSIVE InsertEntry(_, _)
InsertEntry(sorted, e) ==
  IF sorted = << >> THEN <<e>>
  ELSE IF localeCompare(Label(e), Label(Head(sorted)), "base") < 0
  THEN <<e>> \o sorted
  ELSE <<Head(sorted)>> \o InsertEntry(Tail(sorted), e)
RECURSIVE SortEntries(_)
SortEntries(entries) ==
  IF entries = {} THEN << >>
  ELSE LET e == CHOOSE x \in entries : TRUE
       IN InsertEntry(SortEntries(entries \ {e}), e)

\* .sort((a, b) => a.provider.localeCompare(b.provider))
RECURSIVE InsertProvider(_, _)
InsertProvider(sorted, e) ==
  IF sorted = << >> THEN <<e>>
  ELSE IF localeCompare(e.provider, Head(sorted).provider, "variant") < 0
  THEN <<e>> \o sorted
  ELSE <<Head(sorted)>> \o InsertProvider(Tail(sorted), e)
RECURSIVE SortProviders(_)
SortProviders(infos) ==
  IF infos = {} THEN << >>
  ELSE LET e == CHOOSE x \in infos : TRUE
       IN InsertProvider(SortProviders(infos \ {e}), e)

\* buildModelsInfo(), the value of customModelProvider.modelsInfo.
buildModelsInfo(S, explicit, env) ==
  SortProviders(
    {[provider |-> provider,
      hasAPIKey |-> checkProviderAPIKey(provider, explicit, env)[1],
      models |-> SortEntries({SummaryEntry(S, provider, name) :
                                name \in OwnKeys(S.allModels[provider])})] :
       provider \in DOMAIN S.allModels})

\* ---------------------------------------------------------------- fetchers
\* The fetch table of refreshModels, in Object.entries order.
fetchers ==
  << Str("openai"), Str("google"), Str("anthropic"), Str("xai"), Str("groq"),
     Str("openRouter"), Str("ollama") >>

\* What a listing endpoint can answer. An item of a listing has two optional
\* fields: `id` (id; name for google and ollama) and `alt` (display_name for
\* anthropic, name for xai and openRouter, displayName for google, model for
\* ollama).
Item(id) == [id |-> Some(Str(id)), alt |-> None]
ListedItems(provider) ==
  CASE provider = Str("openai") -> {Item("gpt-6")}
    [] provider = Str("ollama") -> {Item("gemma3:1b")}
    [] OTHER -> {Item("m1")}
SeqsUpTo(S, n) == UNION {[1..k -> S] : k \in 0..n}
FetchOutcomes(provider) ==
  {[kind |-> k, items |-> << >>] :
     k \in {"network_error", "http_error", "bad_json", "no_list"}}
  \cup {[kind |-> "list", items |-> l] :
          l \in SeqsUpTo(ListedItems(provider), MaxList)}

Entry(name, displayName, image) ==
  [name |-> name, displayName |-> displayName, apiName |-> None,
   isToolCallUnsupported |-> None, isImageInputUnsupported |-> image]

\* .filter(id => { if (!id) return false; if (seen.has(id)) ... }) of
\* fetchOpenAIModels: the non-empty ids, first occurrences only.
RECURSIVE DedupIds(_, _, _)
DedupIds(items, i, seen) ==
  IF i > Len(items) THEN << >>
  ELSE LET id == OrElse(items[i].id, EmptyStr)
       IN IF id = EmptyStr \/ id \in seen
          THEN DedupIds(items, i + 1, seen)
          ELSE <<Entry(id, None, None)>>
                 \o DedupIds(items, i + 1, seen \cup {id})

\* models.map(...) of the other fetchers; a google or ollama item without a
\* usable name is dropped.
RECURSIVE MapItems(_, _, _)
MapItems(provider, items, i) ==
  IF i > Len(items) THEN << >>
  ELSE LET it == items[i]
           \* an absent id reads undefined, which names the key "undefined"
           id == Coalesce(it.id, Str("undefined"))
           rest == MapItems(provider, items, i + 1)
       IN CASE provider = Str("google") ->
                 LET raw == IF it.id # None /\ Len(it.id[1]) > 0
                               /\ Head(it.id[1]) = "models/"
                            THEN Tail(it.id[1])
                            ELSE OrElse(it.id, EmptyStr)
                     name == IF raw # EmptyStr THEN raw
                             ELSE OrElse(it.alt, EmptyStr)
                 IN IF name = EmptyStr THEN rest
                    ELSE <<Entry(name, Some(OrElse(it.alt, name)),
                                 Some(FALSE))>> \o rest
            [] provider = Str("ollama") ->
                 LET name == OrElse(it.id, OrElse(it.alt, EmptyStr))
                 IN IF name = EmptyStr THEN rest
                    ELSE <<Entry(name, Some(name), None)>> \o rest
            [] provider = Str("groq") ->
                 <<Entry(id, Some(id), Some(FALSE))>> \o rest
            [] OTHER ->  \* anthropic, xai, openRouter
                 <<Entry(id, Some(OrElse(it.alt, id)), Some(FALSE))>> \o rest

\* A loader once its request was answered with `outcome`: whether it threw
\* and, if not, the registrations it returned.
Loader(provider, outcome) ==
  CASE outcome.kind \in {"network_error", "http_error", "bad_json"} ->
         [threw |-> TRUE, models |-> << >>]
    [] outcome.kind = "no_list" ->
         \* (data.data as ...).map throws for openai; the others `|| []`
         [threw |-> provider = Str("openai"), models |-> << >>]
    [] OTHER ->
         [threw |-> FALSE,
          models |-> IF provider = Str("openai")
                     THEN DedupIds(outcome.items, 1, {})
                     ELSE MapItems(provider, outcome.items, 1)]

\* Whether the loader issues its request: every loader but ollama's returns
\* [] before any request when its own environment key is not valid.
LoaderFetches(provider, env) ==
  \/ providerKeyCheckers[provider] = ""
  \/ hasValidKey(env[providerKeyCheckers[provider]])

\* The per-provider task without its try/catch: what the loader throws
\* rejects the task.
TaskResultNoCatch(loaded) ==
  [state |-> IF loaded.threw THEN "rejected" ELSE "settled",
   threw |-> loaded.threw,
   models |-> IF loaded.threw THEN << >> ELSE loaded.models]

\* The try/catch of the per-provider task: a loader that threw counts as one
\* that returned no models.
TaskResult(loaded) ==
  [state |-> "settled", threw |-> loaded.threw,
   models |-> IF loaded.threw THEN << >> ELSE loaded.models]

\* The task of a provider when the round calls every loader, whatever the
\* credential check says.
TaskStartAlwaysFetches(provider, explicit, env) ==
  [state |-> "pending", threw |-> FALSE, models |-> << >>]

\* The task of one provider up to its first suspension.
TaskStart(provider, explicit, env) ==
  IF ~checkProviderAPIKey(provider, explicit, env)[1]
  THEN [state |-> "skipped", threw |-> FALSE, models |-> << >>]
  ELSE IF ~LoaderFetches(provider, env)
  THEN [state |-> "settled", threw |-> FALSE, models |-> << >>]
  ELSE [state |-> "pending", threw |-> FALSE, models |-> << >>]

\* results.forEach(({provider, models}) => {...}): one provider's result.
\* (Binding T makes TLC compute the store after one registration once,
\* before it goes on to the next.)
RECURSIVE RegisterEntries(_, _, _, _)
RegisterEntries(S, provider, models, i) ==
  IF i > Len(models) THEN S
  ELSE CHOOSE R \in
         {RegisterEntries(T, provider, models, i + 1) :
            T \in {registerModel(S, provider, models[i].name,
                     [displayName |-> models[i].displayName,
                      apiName |-> models[i].apiName,
                      isToolCallUnsupported |->
                        models[i].isToolCallUnsupported,
                      isImageInputUnsupported |->
                        models[i].isImageInputUnsupported,
                      model |-> None])}} : TRUE

\* The forEach body without `if (!models.length) return`.
ApplyResultAlwaysClears(S, provider, models) ==
  RegisterEntries(clearProvider(S, provider), provider, models, 1)

\* The forEach body that clears a provider and leaves the registration of
\* the returned models to a later turn.
ApplyResultClearsOnly(S, provider, models) ==
  IF Len(models) = 0 THEN S
  ELSE clearProvider(S, provider)

ApplyResult(S, provider, models) ==
  IF Len(models) = 0 THEN S
  ELSE RegisterEntries(clearProvider(S, provider), provider, models, 1)

RECURSIVE ApplyResults(_, _, _)
ApplyResults(S, results, i) ==
  IF i > Len(fetchers) THEN S
  ELSE CHOOSE R \in
         {ApplyResults(T, results, i + 1) :
            T \in {ApplyResult(S, fetchers[i],
                               results[fetchers[i]].models)}} : TRUE

\* ------------------------------------------------- component files: paths
\* A path string of src/lib/component-config/index.ts is the sequence of its
\* segments, the pieces between the "/" separators: "./admin/page.tsx" is
\* <<".", "admin", "page.tsx">>, "/a" is <<"", "a">>, "a/" is <<"a", "">> and
\* the empty string is <<"">>. The server runs on a POSIX system (path.sep is
\* "/") and no segment of the model holds white space or a backslash, so
\* trim() and toPosix() return their argument.
PathSegments == {"", ".", "..", "admin", "page.tsx"}
RelativePaths == UNION {[1..k -> PathSegments] : k \in 1..MaxSegments}

\* An absolute normalised path: its segments below "/" and whether the
\* string ends with a separator (path.normalize keeps a trailing one).
AbsolutePath(segs, slash) == [segs |-> segs, slash |-> slash]
NoPath == AbsolutePath(<< >>, FALSE)

\* process.cwd()
cwd == <<"cwd">>
\* path.join(process.cwd(), "src/components")
componentsRoot == cwd \o <<"src", "components">>

ExcludedTopLevel ==
  {"admin", "agent", "auth", "export", "layouts", "tool-invocation", "ui",
   "user"}
CategoryDefinition(id, directorySegments, excludeTopLevel) ==
  [id |-> id, directorySegments |-> directorySegments,
   excludeTopLevel |-> excludeTopLevel]
COMPONENT_CATEGORY_DEFINITIONS ==
  << CategoryDefinition("structural", << >>, Some(ExcludedTopLevel)),
     CategoryDefinition("administrador", <<"admin">>, None),
     CategoryDefinition("agentes", <<"agent">>, None),
     CategoryDefinition("autenticacao", <<"auth">>, None),
     CategoryDefinition("exportacao", <<"export">>, None),
     CategoryDefinition("layouts", <<"layouts">>, None),
     CategoryDefinition("ferramentas", <<"tool-invocation">>, None),
     CategoryDefinition("ui-ux", <<"ui">>, None),
     CategoryDefinition("detalhes-usuarios", <<"user", "user-detail">>, None),
     CategoryDefinition("workflow", <<"user", "workflow">>, None) >>

\* directory: path.join(componentsRoot, ...directorySegments), an absolute
\* path without a trailing separator.
componentCategories ==
  [i \in 1..Len(COMPONENT_CATEGORY_DEFINITIONS) |->
     [id |-> COMPONENT_CATEGORY_DEFINITIONS[i].id,
      directory |->
        componentsRoot \o COMPONENT_CATEGORY_DEFINITIONS[i].directorySegments,
      excludeTopLevel |-> COMPONENT_CATEGORY_DEFINITIONS[i].excludeTopLevel]]
CategoryIds == {componentCategories[i].id : i \in DOMAIN componentCategories}
categoriesById ==
  [id \in CategoryIds |->
     componentCategories[CHOOSE i \in DOMAIN componentCategories :
                           componentCategories[i].id = id]]

\* None: throws "Categoria inválida".
ensureCategory(id) ==
  IF id \in DOMAIN categoriesById THEN Some(categoriesById[id]) ELSE None

\* What resolveFilePath and its helpers give: the message of the Error they
\* throw ("" when they return), or the value they return.
Failure(message) ==
  [error |-> message, fullPath |-> NoPath, relativePath |-> <<"">>]
Resolved(fullPath, relativePath) ==
  [error |-> "", fullPath |-> fullPath, relativePath |-> relativePath]

\* normalized.replace(/^\/+/g, ""): every leading "/" is an empty leading
\* segment.
RECURSIVE StripLeadingSlashes(_)
StripLeadingSlashes(segs) ==
  IF Len(segs) > 1 /\ Head(segs) = "" THEN StripLeadingSlashes(Tail(segs))
  ELSE segs

\* stripped.includes(".."): of the segments of the model only ".." holds two
\* dots in a row (a separator stands between the dots of "./.").
IncludesDotDot(segs) == \E i \in 1..Len(segs) : segs[i] = ".."

normalizeRelativePath(value) ==
  LET stripped == StripLeadingSlashes(value)
  IN IF stripped = <<"">> THEN Failure("Caminho inválido")
     ELSE IF IncludesDotDot(stripped)
     THEN Failure("O caminho não pode retroceder pastas")
     ELSE Resolved(NoPath, stripped)

\* The message validateStructuralPath throws, "" when it returns.
validateStructuralPath(category, relativePath) ==
  IF category.excludeTopLevel = None THEN ""
  ELSE IF category.excludeTopLevel[1] = {} THEN ""
  ELSE LET firstSegment == relativePath[1]
       IN IF firstSegment # "" /\ firstSegment \in category.excludeTopLevel[1]
          THEN "O caminho selecionado pertence a outro agrupamento"
          ELSE ""

\* path.normalize on the segments of an absolute path: "" and "." are
\* dropped, ".." removes the segment before it (nothing at the root).
RECURSIVE normalizeString(_, _)
normalizeString(done, rest) ==
  IF rest = << >> THEN done
  ELSE IF Head(rest) \in {"", "."} THEN normalizeString(done, Tail(rest))
  ELSE IF Head(rest) = ".."
  THEN normalizeString(IF done = << >> THEN done
                       ELSE SubSeq(done, 1, Len(done) - 1), Tail(rest))
  ELSE normalizeString(Append(done, Head(rest)), Tail(rest))
pathNormalize(p) == AbsolutePath(normalizeString(<< >>, p.segs), p.slash)
\* path.join(directory, relative) for an absolute directory and a non-empty
\* relative string: directory + "/" + relative, normalised.
pathJoin(directory, relative) ==
  pathNormalize(AbsolutePath(directory \o relative,
                             relative[Len(relative)] = ""))
\* path.dirname of a normalised absolute path
pathDirname(p) == SubSeq(p.segs, 1, Len(p.segs) - 1)

\* String.prototype.startsWith between two names of the model: the pairs
\* <<prefix, name>> of different names where name begins with prefix. (""
\* and "." never occur in a normalised path.)
ProperPrefixes == {<<"user", "user-detail">>}
NameStartsWith(name, prefix) ==
  name = prefix \/ <<prefix, name>> \in ProperPrefixes
\* normalized.startsWith(directory) on the two strings: the directory's
\* segments but the last are segments of the path, and its last segment
\* begins the path's segment at that place.
PathStartsWith(p, directory) ==
  LET k == Len(directory)
  IN /\ Len(p.segs) >= k
     /\ SubSeq(p.segs, 1, k - 1) = SubSeq(directory, 1, k - 1)
     /\ NameStartsWith(p.segs[k], directory[k])

resolveFilePath(category, relativePath) ==
  LET clean == normalizeRelativePath(relativePath)
  IN IF clean.error # "" THEN Failure(clean.error)
     ELSE IF category.excludeTopLevel # None
             /\ validateStructuralPath(category, clean.relativePath) # ""
     THEN Failure(validateStructuralPath(category, clean.relativePath))
     ELSE LET target == pathJoin(category.directory, clean.relativePath)
              normalized == pathNormalize(target)
          IN IF ~PathStartsWith(normalized, category.directory)
             THEN Failure("O caminho está fora do escopo permitido")
             ELSE Resolved(normalized, clean.relativePath)

\* ------------------------------------------- component files: file system
\* The paths from "/" down to a directory.
Prefixes(segs) == {SubSeq(segs, 1, k) : k \in 0..Len(segs)}
NoFiles == [p \in {} |-> ""]
\* The category directories are part of the repository.
CategoryDirectories ==
  UNION {Prefixes(componentCategories[i].directory) :
           i \in DOMAIN componentCategories}

\* fs.mkdir(directory, {recursive: true}): the error code ("" on success).
fsMkdir(fileMap, directory) ==
  IF \E q \in Prefixes(directory) : q \in DOMAIN fileMap THEN "EEXIST"
  ELSE ""
\* fs.access(path): the error code ("" when the path exists).
fsAccess(fileMap, dirs, p) ==
  IF \E q \in Prefixes(pathDirname(p)) : q \in DOMAIN fileMap THEN "ENOTDIR"
  ELSE IF p.segs \in dirs THEN ""
  ELSE IF p.segs \in DOMAIN fileMap
  THEN IF p.slash THEN "ENOTDIR" ELSE ""
  ELSE "ENOENT"
\* fs.writeFile(path, content): the error code ("" when the file now holds
\* content). The file is created when it is missing and replaced when it
\* exists: writeFile opens with flag "w".
fsWriteFile(fileMap, dirs, p) ==
  IF \E q \in Prefixes(pathDirname(p)) : q \in DOMAIN fileMap THEN "ENOTDIR"
  ELSE IF pathDirname(p) \notin dirs THEN "ENOENT"
  ELSE IF p.slash \/ p.segs \in dirs THEN "EISDIR"
  ELSE ""

\* ------------------------------------------------------------------- state
VARIABLES
  env,                  \* process.env: the API key variables
  openaiCompatibleProviders,  \* the parsed OPENAI_COMPATIBLE_DATA
  allModels,            \* provider -> (model name -> handle)
  modelMetadata,        \* key -> {displayName, isToolCallUnsupported, ...}
  modelInstanceLookup,  \* handle -> key
  lastRefreshAt,        \* ms
  currentRefresh,       \* NoRefresh, or the promise of the round it holds
  round,                \* the latest round: its promise id, state and tasks
  now,                  \* Date.now()
  call,                 \* each caller's refresh() call in progress
  returned,             \* the refresh() call that returned last
  executing,            \* rounds started and not yet finished
  outstanding,          \* provider -> listing requests not yet answered
  fetchCount,           \* provider -> listing requests issued so far
  files,                \* the disk: path of a file -> its content
  directories,          \* the disk: the paths of its directories
  request               \* each createComponentFile call in progress

vars ==
  << env, openaiCompatibleProviders, allModels, modelMetadata,
     modelInstanceLookup, lastRefreshAt, currentRefresh, round, now, call,
     returned, executing, outstanding, fetchCount, files, directories,
     request >>

catalogVars == << allModels, modelMetadata, modelInstanceLookup >>
roundVars == << lastRefreshAt, currentRefresh, round, executing, outstanding,
                fetchCount >>
configVars == << env, openaiCompatibleProviders >>
callVars == << call, returned >>
fileVars == << files, directories, request >>

TheStore == Store(allModels, modelMetadata, modelInstanceLookup)

\* modelInstanceLookup is a WeakMap: an entry lives as long as its handle is
\* reachable, which here is as long as the catalog holds the handle.
Reachable(am) == {am[p][n] : <<p, n>> \in {pn \in (DOMAIN am) \X
                    UNION {DOMAIN am[q] : q \in DOMAIN am} :
                      pn[2] \in DOMAIN am[pn[1]]}}
\* (Binding T makes TLC compute the new store once.)
SetStore(S) ==
  \E T \in {S} :
    /\ allModels' = T.allModels
    /\ modelMetadata' = T.modelMetadata
    /\ modelInstanceLookup' =
         Without(T.modelInstanceLookup,
                 (DOMAIN T.modelInstanceLookup) \ Reachable(T.allModels))

\* 1000 * 60 * 5
RefreshInterval == 1000 * 60 * 5
\* One clock step: five minutes.
TickMs == 1000 * 60 * 5
\* Date.now() when the module is loaded: long after the epoch, so that a call
\* with lastRefreshAt = 0 is never inside the interval.
StartTime == 2 * RefreshInterval

NoRefresh == 0
FetchTable == Range(fetchers)

\* The configuration the process is started with: an OpenAI key, no other
\* API key, and one dynamically configured provider.
EnvWith(openaiKey) ==
  [v \in EnvVars |-> IF v = "OPENAI_API_KEY" THEN openaiKey ELSE Unset]
Startups ==
  { [env |-> EnvWith("sk-live"), compatible |-> LabProvider] }

\* The references getModel is called with (None: no reference).
Ref(provider, model) == Some([provider |-> provider, model |-> model])
ChatModels ==
  { None,
    Ref(Str("openai"), Str("gpt-4.1")),
    Ref(Str("ollama"), Str("Mistral")),
    Ref(Str("unknown-provider"), Str("x")),
    Ref(InheritedKey, Str("x")),
    Ref(Str("openai"), InheritedKey) }

IdleTask == [state |-> "idle", threw |-> FALSE, models |-> << >>]
NotCalling ==
  [pc |-> "idle", how |-> "none", promise |-> NoRefresh]

\* The requests that call createComponentFile.
Clients == {"a", "b"}
NoRequest ==
  [pc |-> "idle", categoryId |-> "", relativePath |-> <<"">>,
   content |-> "", fullPath |-> NoPath, cleanPath |-> <<"">>, error |-> ""]
Rejected(r, message) == [r EXCEPT !.pc = "failed", !.error = message]

\* The file module when it is loaded over the files of `disk`.
ComponentFilesAt(disk) ==
  /\ files = disk
  /\ directories = CategoryDirectories
  /\ request = [c \in Clients |-> NoRequest]

\* The state when module initialisation has run under configuration `s`.
StartedWith(s) ==
  /\ env = s.env
  /\ openaiCompatibleProviders = s.compatible
  /\ allModels = StartupStore(openaiCompatibleProviders).allModels
  /\ modelMetadata = StartupStore(openaiCompatibleProviders).modelMetadata
  /\ modelInstanceLookup =
       StartupStore(openaiCompatibleProviders).modelInstanceLookup
  /\ lastRefreshAt = 0
  /\ currentRefresh = NoRefresh
  /\ round = [id |-> 0, status |-> "none",
              results |-> [p \in FetchTable |-> IdleTask]]
  /\ now = StartTime
  /\ call = [c \in Callers |-> NotCalling]
  /\ returned = [how |-> "none", outcome |-> "none"]
  /\ executing = 0
  /\ outstanding = [p \in FetchTable |-> 0]
  /\ fetchCount = [p \in FetchTable |-> 0]

Init ==
  /\ \E s \in Startups : StartedWith(s)
  /\ ComponentFilesAt(NoFiles)

\* ----------------------------------------------------------------- refresh
\* refreshModels without `if (currentRefresh) return currentRefresh`.
refreshDecisionNoJoin(force, nowMs, last, marker) ==
  IF ~force /\ nowMs - last < RefreshInterval THEN "throttled"
  ELSE "start"

\* refreshModels without the throttle's early return.
refreshDecisionNoThrottle(force, nowMs, last, marker) ==
  IF marker # NoRefresh THEN "join"
  ELSE "start"

\* refreshModels with a bare `return` where it finds the marker set.
refreshDecisionNoAwait(force, nowMs, last, marker) ==
  IF ~force /\ nowMs - last < RefreshInterval THEN "throttled"
  ELSE IF marker # NoRefresh THEN "throttled"
  ELSE "start"

\* The two early returns of refreshModels, in the order the code takes them.
refreshDecision(force, nowMs, last, marker) ==
  IF ~force /\ nowMs - last < RefreshInterval THEN "throttled"
  ELSE IF marker # NoRefresh THEN "join"
  ELSE "start"

\* The state of promise `r` (round ids are promise ids; a later round is
\* only started once the marker was cleared after a fulfilled one).
PromiseState(r) ==
  IF r < round.id THEN "fulfilled"
  ELSE IF round.status = "fetching" THEN "pending"
  ELSE round.status

RoundExecuting == round.status = "fetching"

\* refreshModels(force) from its call to its first suspension (or return).
Refresh(c, force) ==
  /\ call[c].pc = "idle"
  /\ UNCHANGED << fileVars, configVars, catalogVars, now >>
  /\ LET decision == refreshDecision(force, now, lastRefreshAt, currentRefresh)
         started == [p \in FetchTable |->
                       TaskStart(p,
                                 providerHasExplicitKey(openaiCompatibleProviders),
                                 env)]
     IN CASE decision = "throttled" ->
               /\ returned' = [how |-> "throttled", outcome |-> "resolved"]
               /\ UNCHANGED << call, roundVars >>
          [] decision = "join" ->
               /\ call' = [call EXCEPT ![c] =
                    [pc |-> "awaiting", how |-> "joined",
                     promise |-> currentRefresh]]
               /\ UNCHANGED << returned, roundVars >>
          [] OTHER ->
               /\ round.id < MaxRounds
               /\ round' = [id |-> round.id + 1, status |-> "fetching",
                            results |-> started]
               /\ currentRefresh' = round.id + 1
               /\ executing' = executing + 1
               /\ outstanding' =
                    [p \in FetchTable |->
                       outstanding[p]
                         + (IF started[p].state = "pending" THEN 1 ELSE 0)]
               /\ fetchCount' =
                    [p \in FetchTable |->
                       fetchCount[p]
                         + (IF started[p].state = "pending" THEN 1 ELSE 0)]
               /\ call' = [call EXCEPT ![c] =
                    [pc |-> "awaiting", how |-> "started",
                     promise |-> round.id + 1]]
               /\ UNCHANGED << returned, lastRefreshAt >>

\* Promise.all settles: fulfilled when every task is, rejected as soon as one
\* task is.
AnyTaskRejected ==
  \E p \in FetchTable : round.results[p].state = "rejected"
RoundCanFinish ==
  /\ round.status = "fetching"
  /\ \/ \A p \in FetchTable : round.results[p].state \in {"skipped", "settled"}
     \/ AnyTaskRejected

\* Continuations that are ready (microtasks) run before the clock moves on
\* and before the next network answer is delivered.
ContinuationReady ==
  \/ RoundCanFinish
  \/ \E c \in Callers :
       call[c].pc = "awaiting" /\ PromiseState(call[c].promise) # "pending"

\* A provider's listing request is answered and its task settles.
FetchSettle(p, outcome) ==
  /\ ~ContinuationReady
  /\ round.status = "fetching"
  /\ round.results[p].state = "pending"
  /\ round' = [round EXCEPT !.results[p] = TaskResult(Loader(p, outcome))]
  /\ outstanding' = [outstanding EXCEPT ![p] = outstanding[p] - 1]
  /\ UNCHANGED << fileVars, configVars, catalogVars, lastRefreshAt, currentRefresh, now,
                  callVars, executing, fetchCount >>

\* A round that records its completion time only when some provider
\* returned models.
RoundFinishStampsOnChange ==
  /\ RoundCanFinish
  /\ executing' = executing - 1
  /\ IF AnyTaskRejected
     THEN /\ round' = [round EXCEPT !.status = "rejected"]
          /\ UNCHANGED << catalogVars, lastRefreshAt >>
     ELSE /\ round' = [round EXCEPT !.status = "fulfilled"]
          /\ SetStore(ApplyResults(TheStore, round.results, 1))
          /\ lastRefreshAt' =
               IF \E p \in FetchTable : Len(round.results[p].models) > 0
               THEN now ELSE lastRefreshAt
  /\ UNCHANGED << fileVars, configVars, currentRefresh, now, callVars, outstanding,
                  fetchCount >>

\* The rest of the round after `await Promise.all(...)`.
RoundFinish ==
  /\ RoundCanFinish
  /\ executing' = executing - 1
  /\ IF AnyTaskRejected
     THEN /\ round' = [round EXCEPT !.status = "rejected"]
          /\ UNCHANGED << catalogVars, lastRefreshAt >>
     ELSE /\ round' = [round EXCEPT !.status = "fulfilled"]
          /\ SetStore(ApplyResults(TheStore, round.results, 1))
          /\ lastRefreshAt' = now
  /\ UNCHANGED << fileVars, configVars, currentRefresh, now, callVars, outstanding,
                  fetchCount >>

\* How the promise a caller awaits settles the caller's own refresh().
Outcome(r) == IF PromiseState(r) = "fulfilled" THEN "resolved" ELSE "rejected"

\* A starting caller that returns without `currentRefresh = null`.
InitiatorResumeKeepsMarker(c) ==
  /\ call[c].pc = "awaiting"
  /\ call[c].how = "started"
  /\ PromiseState(call[c].promise) # "pending"
  /\ call' = [call EXCEPT ![c] = NotCalling]
  /\ returned' = [how |-> "started", outcome |-> Outcome(call[c].promise)]
  /\ round' = [round EXCEPT !.results = [p \in FetchTable |-> IdleTask]]
  /\ UNCHANGED << fileVars, configVars, catalogVars, lastRefreshAt, now, currentRefresh,
                  executing, outstanding, fetchCount >>

\* The caller that started the round resumes after `await currentRefresh`.
InitiatorResume(c) ==
  /\ call[c].pc = "awaiting"
  /\ call[c].how = "started"
  /\ PromiseState(call[c].promise) # "pending"
  \* `currentRefresh = null` is skipped when the await throws
  /\ currentRefresh' = IF PromiseState(call[c].promise) = "fulfilled"
                       THEN NoRefresh ELSE currentRefresh
  /\ call' = [call EXCEPT ![c] = NotCalling]
  /\ returned' = [how |-> "started", outcome |-> Outcome(call[c].promise)]
  \* the round's local `results` are gone with the round
  /\ round' = [round EXCEPT !.results = [p \in FetchTable |-> IdleTask]]
  /\ UNCHANGED << fileVars, configVars, catalogVars, lastRefreshAt, now,
                  executing, outstanding, fetchCount >>

\* A caller that was handed the promise resumes; promise reactions run in
\* the order they were added, so the starter's continuation ran before.
StarterWaiting(r) ==
  \E d \in Callers :
    call[d].pc = "awaiting" /\ call[d].how = "started" /\ call[d].promise = r
JoinerResume(c) ==
  /\ call[c].pc = "awaiting"
  /\ call[c].how = "joined"
  /\ PromiseState(call[c].promise) # "pending"
  /\ ~StarterWaiting(call[c].promise)
  /\ call' = [call EXCEPT ![c] = NotCalling]
  /\ returned' = [how |-> "joined", outcome |-> Outcome(call[c].promise)]
  /\ UNCHANGED << fileVars, configVars, catalogVars, roundVars, now >>

\* ---------------------------------------------------------------- resolver
GetModel(ref) ==
  /\ LET got == getModel(TheStore, ref)
     IN /\ got.model # None
        /\ IF got.store = TheStore THEN UNCHANGED catalogVars
           ELSE SetStore(got.store)
  /\ UNCHANGED << fileVars, configVars, roundVars, now, callVars >>

\* ------------------------------------------------------------------- clock
Tick ==
  /\ ~ContinuationReady
  /\ now < StartTime + MaxTicks * TickMs
  /\ now' = now + TickMs
  /\ UNCHANGED << fileVars, configVars, catalogVars, roundVars, callVars >>

Next ==
  \/ \E c \in Callers, force \in BOOLEAN : Refresh(c, force)
  \/ \E p \in FetchTable : \E outcome \in FetchOutcomes(p) :
       FetchSettle(p, outcome)
  \/ RoundFinish
  \/ \E c \in Callers : InitiatorResume(c)
  \/ \E c \in Callers : JoinerResume(c)
  \/ \E ref \in ChatModels : GetModel(ref)
  \/ Tick

Spec == Init /\ [][Next]_vars

\* The same program when no caller ever forces a refresh.
NextNonForced ==
  \/ \E c \in Callers : Refresh(c, FALSE)
  \/ \E p \in FetchTable : \E outcome \in FetchOutcomes(p) :
       FetchSettle(p, outcome)
  \/ RoundFinish
  \/ \E c \in Callers : InitiatorResume(c)
  \/ \E c \in Callers : JoinerResume(c)
  \/ \E ref \in ChatModels : GetModel(ref)
  \/ Tick

SpecNonForced == Init /\ [][NextNonForced]_vars

\* The same program started without any API key and without dynamically
\* configured providers, while no listing endpoint can be reached: every
\* request that is issued fails.
NoCredentials ==
  [env |-> [v \in EnvVars |-> Unset], compatible |-> << >>]
InitUnavailable == StartedWith(NoCredentials) /\ ComponentFilesAt(NoFiles)
NextUnavailable ==
  \/ \E c \in Callers, force \in BOOLEAN : Refresh(c, force)
  \/ \E p \in FetchTable :
       \E outcome \in {o \in FetchOutcomes(p) : o.kind # "list"} :
         FetchSettle(p, outcome)
  \/ RoundFinish
  \/ \E c \in Callers : InitiatorResume(c)
  \/ \E c \in Callers : JoinerResume(c)
  \/ \E ref \in ChatModels : GetModel(ref)
  \/ Tick

SpecUnavailable == InitUnavailable /\ [][NextUnavailable]_vars

\* The same program when the ollama endpoint may accept a request and never
\* answer it: `await fetch(...)` of that loader then neither resolves nor
\* throws (no loader sets a timeout or an abort signal). Every other request
\* is answered in the end, and a continuation that is ready runs.
Progress ==
  \/ \E p \in FetchTable \ {Str("ollama")} :
       \E outcome \in FetchOutcomes(p) : FetchSettle(p, outcome)
  \/ RoundFinish
  \/ \E c \in Callers : InitiatorResume(c)
  \/ \E c \in Callers : JoinerResume(c)

SpecOllamaMayHang == Init /\ [][NextNonForced]_vars /\ WF_vars(Progress)

\* The same program when the ollama endpoint lists a model whose name is
\* InheritedKey, alone or next to gemma3:1b, while every other listing
\* request fails.
InheritedNameOutcomes ==
  {[kind |-> "list", items |-> l] :
     l \in SeqsUpTo({Item("__proto__"), Item("gemma3:1b")}, MaxList)}
NextInheritedName ==
  \/ \E c \in Callers : Refresh(c, FALSE)
  \/ \E outcome \in InheritedNameOutcomes :
       FetchSettle(Str("ollama"), outcome)
  \/ \E p \in FetchTable \ {Str("ollama")} :
       \E outcome \in {o \in FetchOutcomes(p) : o.kind # "list"} :
         FetchSettle(p, outcome)
  \/ RoundFinish
  \/ \E c \in Callers : InitiatorResume(c)
  \/ \E c \in Callers : JoinerResume(c)
  \/ \E ref \in ChatModels : GetModel(ref)
  \/ Tick

SpecInheritedName == Init /\ [][NextInheritedName]_vars

\* The same program when every listing request that was started is answered
\* in the end (with a listing or an error) and every continuation that is
\* ready runs.
ProgressEveryFetch ==
  \/ \E p \in FetchTable :
       \E outcome \in FetchOutcomes(p) : FetchSettle(p, outcome)
  \/ RoundFinish
  \/ \E c \in Callers : InitiatorResume(c)
  \/ \E c \in Callers : JoinerResume(c)

SpecFetchesSettle ==
  Init /\ [][NextNonForced]_vars /\ WF_vars(ProgressEveryFetch)

\* -------------------------------------------------- createComponentFile
\* createComponentFile up to its first await: ensureCategory,
\* resolveFilePath, path.dirname and the call of fs.mkdir. An Error thrown
\* here rejects the promise the function returns.
CreateCall(c, categoryId, relativePath, content) ==
  /\ request[c].pc = "idle"
  /\ LET called == [NoRequest EXCEPT !.categoryId = categoryId,
                                     !.relativePath = relativePath,
                                     !.content = content]
         category == ensureCategory(categoryId)
     IN request' =
          [request EXCEPT ![c] =
             IF category = None THEN Rejected(called, "Categoria inválida")
             ELSE LET resolved == resolveFilePath(category[1], relativePath)
                  IN IF resolved.error # ""
                     THEN Rejected(called, resolved.error)
                     ELSE [called EXCEPT !.pc = "mkdir",
                                         !.fullPath = resolved.fullPath,
                                         !.cleanPath = resolved.relativePath]]
  /\ UNCHANGED << files, directories >>
  /\ UNCHANGED << configVars, catalogVars, roundVars, callVars, now >>

\* fs.mkdir(directory, {recursive: true}) is carried out and the function
\* goes on to call fs.access.
CreateMkdir(c) ==
  /\ request[c].pc = "mkdir"
  /\ LET directory == pathDirname(request[c].fullPath)
         code == fsMkdir(files, directory)
     IN IF code # ""
        THEN /\ request' = [request EXCEPT ![c] = Rejected(@, code)]
             /\ UNCHANGED directories
        ELSE /\ request' = [request EXCEPT ![c].pc = "access"]
             /\ directories' = directories \cup Prefixes(directory)
  /\ UNCHANGED files
  /\ UNCHANGED << configVars, catalogVars, roundVars, callVars, now >>

\* fs.access(fullPath) is answered: when the path exists the try block
\* throws "O arquivo já existe", which the catch block throws again (that
\* Error has no code); ENOENT is swallowed and the function goes on to call
\* fs.writeFile; any other error is thrown again.
CreateAccess(c) ==
  /\ request[c].pc = "access"
  /\ LET code == fsAccess(files, directories, request[c].fullPath)
     IN request' =
          [request EXCEPT ![c] =
             IF code = "" THEN Rejected(@, "O arquivo já existe")
             ELSE IF code # "ENOENT" THEN Rejected(@, code)
             ELSE [@ EXCEPT !.pc = "write"]]
  /\ UNCHANGED << files, directories >>
  /\ UNCHANGED << configVars, catalogVars, roundVars, callVars, now >>

\* fs.writeFile(fullPath, content, "utf8") is carried out and the function
\* returns cleanPath.
CreateWrite(c) ==
  /\ request[c].pc = "write"
  /\ LET code == fsWriteFile(files, directories, request[c].fullPath)
     IN IF code # ""
        THEN /\ request' = [request EXCEPT ![c] = Rejected(@, code)]
             /\ UNCHANGED files
        ELSE /\ request' = [request EXCEPT ![c].pc = "created"]
             /\ files' = Put(files, request[c].fullPath.segs,
                             request[c].content)
  /\ UNCHANGED directories
  /\ UNCHANGED << configVars, catalogVars, roundVars, callVars, now >>

\* Two requests that create files of the structural and the administrador
\* category, over a disk that holds no component file or one.
InitialDisks ==
  {NoFiles, (componentsRoot \o <<"page.tsx">>) :> "old"}
CreatedCategories == {"structural", "administrador", "inexistente"}
CreatedPaths ==
  {<<"page.tsx">>, <<"admin", "page.tsx">>, <<".", "admin", "page.tsx">>}
Contents == {"A", "B"}
InitComponentFiles ==
  /\ \E s \in Startups : StartedWith(s)
  /\ \E disk \in InitialDisks : ComponentFilesAt(disk)
NextComponentFiles ==
  \/ \E c \in Clients, categoryId \in CreatedCategories,
        relativePath \in CreatedPaths, content \in Contents :
       CreateCall(c, categoryId, relativePath, content)
  \/ \E c \in Clients : CreateMkdir(c)
  \/ \E c \in Clients : CreateAccess(c)
  \/ \E c \in Clients : CreateWrite(c)

SpecComponentFiles == InitComponentFiles /\ [][NextComponentFiles]_vars

\* One request at a time, for every category and every relative path of at
\* most MaxSegments segments.
NextResolvePaths ==
  \/ \E categoryId \in CategoryIds \cup {"inexistente"},
        relativePath \in RelativePaths :
       /\ \A c \in Clients : request[c].pc = "idle"
       /\ CreateCall("a", categoryId, relativePath, "A")
  \/ \E c \in Clients : CreateMkdir(c)
  \/ \E c \in Clients : CreateAccess(c)
  \/ \E c \in Clients : CreateWrite(c)

SpecResolvePaths == InitComponentFiles /\ [][NextResolvePaths]_vars

\* ------------------------------------------------------------ single-flight
\* C1 - Single-flight: in every reachable state at most one refresh round is
\* executing and no provider has more than one listing request outstanding;
\* a refresh() call, forced or not, that finds a round executing starts no
\* round and issues no request, and when it waits it waits for that round.
SingleFlight ==
  /\ [](executing <= 1 /\ \A p \in FetchTable : outstanding[p] <= 1)
  /\ [][\A c \in Callers, force \in BOOLEAN :
          (Refresh(c, force) /\ RoundExecuting)
            => /\ round' = round
               /\ executing' = executing
               /\ outstanding' = outstanding
               /\ fetchCount' = fetchCount
               /\ (call'[c].pc = "awaiting"
                     => /\ call'[c].how = "joined"
                        /\ call'[c].promise = round.id)]_vars

\* One caller started a round whose requests are outstanding and the other
\* caller, having found it in flight, waits for the same round.
SingleFlightJoined ==
  /\ executing = 1
  /\ \E p \in FetchTable : outstanding[p] = 1
  /\ \E c, d \in Callers :
       /\ call[c].how = "started" /\ call[c].promise = round.id
       /\ call[d].how = "joined" /\ call[d].promise = round.id

\* ----------------------------------------------------------------- throttle
\* C2 - Throttle: a refresh(false) call made less than RefreshInterval after
\* the last round completed returns at once (the caller is not suspended),
\* starts no round and no listing request, and leaves the catalog, the
\* metadata, the timestamp and the in-flight marker as they were. Hence a
\* non-forced call starts a round only when the interval has elapsed.
ThrottledCallChangesNothing ==
  [][\A c \in Callers :
       (Refresh(c, FALSE) /\ now - lastRefreshAt < RefreshInterval)
         => /\ call' = call
            /\ UNCHANGED << allModels, modelMetadata, modelInstanceLookup >>
            /\ UNCHANGED << lastRefreshAt, currentRefresh, round >>
            /\ UNCHANGED << executing, outstanding, fetchCount >>]_vars

\* A round has completed, and a non-forced call made within the interval
\* has returned without a round.
ThrottledCallReturned ==
  /\ returned.how = "throttled"
  /\ round.status = "fulfilled"
  /\ lastRefreshAt # 0
  /\ now - lastRefreshAt < RefreshInterval

\* ------------------------------------------------- concurrent first refresh
\* The providers whose listing request a round issues: those that pass the
\* credential check and whose loader finds its own key.
IssuesRequest(p) ==
  /\ checkProviderAPIKey(p, providerHasExplicitKey(openaiCompatibleProviders),
                         env)[1]
  /\ LoaderFetches(p, env)

\* C3 (as amended) - Starting with no prior refresh, concurrent non-forced
\* refresh() calls cause one round in total: while it is the only round,
\* every provider of the fetch table whose request the round issues has been
\* fetched exactly once and every other provider not at all, and no call has
\* returned before that round applied its results and set the timestamp; a
\* second round is started only by a call made RefreshInterval or more after
\* the first one completed.
FirstRoundOnce ==
  [][/\ round'.id = 1
          => /\ \A p \in FetchTable :
                  fetchCount'[p] = IF IssuesRequest(p) THEN 1 ELSE 0
             /\ returned'.how # "none"
                  => round'.status = "fulfilled" /\ lastRefreshAt' # 0
     /\ (round.id = 1 /\ round'.id > 1)
          => /\ round.status = "fulfilled"
             /\ now - lastRefreshAt >= RefreshInterval]_vars

\* C3 (as stated) - the same, with every provider of the fetch table fetched
\* exactly once by the single round.
EachProviderFetchedOnce ==
  [][/\ round'.id = 1
          => /\ \A p \in FetchTable : fetchCount'[p] = 1
             /\ returned'.how # "none"
                  => round'.status = "fulfilled" /\ lastRefreshAt' # 0
     /\ (round.id = 1 /\ round'.id > 1)
          => /\ round.status = "fulfilled"
             /\ now - lastRefreshAt >= RefreshInterval]_vars

\* Two concurrent calls, one round: the round is over, the caller that
\* started it has returned and the caller that joined it returned last.
FirstRoundJoinerReturned ==
  /\ round.id = 1
  /\ round.status = "fulfilled"
  /\ returned.how = "joined"
  /\ \A c \in Callers : call[c].pc = "idle"
  /\ \E p \in FetchTable : fetchCount[p] = 1
  /\ \E p \in FetchTable : fetchCount[p] = 0

\* ------------------------------------------------- calls during a round
\* C4 (as amended) - Every refresh() call issued while a round is in flight
\* that is forced, or that is not made within RefreshInterval of an earlier
\* completion, is suspended on that round's promise, and every suspended
\* call resumes only once the round it waits for has finished. (A non-forced
\* call within the interval returns at once, round in flight or not.)
CallsInFlightWait ==
  [][/\ \A c \in Callers, force \in BOOLEAN :
          (/\ Refresh(c, force)
           /\ RoundExecuting
           /\ (force \/ now - lastRefreshAt >= RefreshInterval))
            => /\ call'[c].pc = "awaiting"
               /\ call'[c].promise = round.id
     /\ \A c \in Callers :
          (call[c].pc = "awaiting" /\ call'[c].pc = "idle")
            => ~(call[c].promise = round.id /\ RoundExecuting)]_vars

\* C4 (as stated) - every refresh() call issued while a round is in flight,
\* for every value of force and of the timestamp, is suspended on that
\* round's promise and resumes only once the round has finished.
EveryCallInFlightWaits ==
  [][/\ \A c \in Callers, force \in BOOLEAN :
          (Refresh(c, force) /\ RoundExecuting)
            => /\ call'[c].pc = "awaiting"
               /\ call'[c].promise = round.id
     /\ \A c \in Callers :
          (call[c].pc = "awaiting" /\ call'[c].pc = "idle")
            => ~(call[c].promise = round.id /\ RoundExecuting)]_vars

\* A call that joined the second round has returned, after that round
\* finished and after the caller that started it.
JoinedSecondRoundReturned ==
  /\ round.id = 2
  /\ round.status = "fulfilled"
  /\ returned.how = "joined"
  /\ currentRefresh = NoRefresh
  /\ \A c \in Callers : call[c].pc = "idle"

\* ------------------------------------------------------------ forced calls
\* C5 - A refresh(true) call made while no round is in flight always starts
\* a new round, however recently the last one completed; made while a round
\* is in flight it starts none and waits for the one in flight.
ForcedCallStartsRound ==
  [][\A c \in Callers :
       Refresh(c, TRUE)
         => IF RoundExecuting
            THEN /\ round' = round
                 /\ call'[c].how = "joined"
                 /\ call'[c].promise = round.id
            ELSE /\ round'.id = round.id + 1
                 /\ round'.status = "fetching"
                 /\ call'[c].how = "started"]_vars

\* ------------------------------------------------- applying a round
\* The step in which a round applies its results.
RoundApplies == round.status = "fetching" /\ round'.status = "fulfilled"

\* What the catalog holds for provider p: its entries (names and handle
\* instances), and per entry its metadata record and reverse-index entry.
ProviderView(p) ==
  IF p \notin DOMAIN allModels THEN None
  ELSE Some([n \in DOMAIN allModels[p] |->
         [handle |-> allModels[p][n],
          metadata |-> IF modelKey(p, n) \in DOMAIN modelMetadata
                       THEN Some(modelMetadata[modelKey(p, n)]) ELSE None,
          key |-> IF allModels[p][n] \in DOMAIN modelInstanceLookup
                  THEN Some(modelInstanceLookup[allModels[p][n]])
                  ELSE None]])

ListedNames(models) == {models[i].name : i \in 1..Len(models)}
CataloguedNames(am, p) == IF p \in DOMAIN am THEN OwnKeys(am[p]) ELSE {}

\* C6 - For any provider of the fetch table whose task in a round yields zero
\* models (the fetch threw, the list was empty, the provider was skipped for
\* a missing credential), the provider's catalog entries, their handle
\* instances and their metadata are the same after the round as before it,
\* whatever the other providers returned in that round.
ZeroModelProviderUntouched ==
  [][RoundApplies
       => \A p \in FetchTable :
            Len(round.results[p].models) = 0
              => ProviderView(p)' = ProviderView(p)]_vars

\* A round has been applied in which ollama's fetch threw, google was
\* skipped and openai's listing replaced the openai entries; ollama and
\* google hold the entries they were seeded with.
OneFailedOneReplaced ==
  /\ round.status = "fulfilled"
  /\ round.results[Str("ollama")].threw
  /\ round.results[Str("google")].state = "skipped"
  /\ Len(round.results[Str("openai")].models) > 0
  /\ DOMAIN allModels[Str("openai")]
       = ListedNames(round.results[Str("openai")].models)
  /\ \A p \in {Str("ollama"), Str("google")} :
       allModels[p] = StartupStore(openaiCompatibleProviders).allModels[p]

\* C7 - For any provider whose task in a round returns at least one model,
\* after the round the names catalogued under the provider are exactly the
\* names returned (a repeated name counted once): every returned name has an
\* entry and a metadata record, and every name catalogued before and not
\* returned (seeded or added lazily by getModel) is gone with its metadata.
ProviderReplacedByListing ==
  [][RoundApplies
       => \A p \in FetchTable :
            Len(round.results[p].models) > 0
              => /\ CataloguedNames(allModels', p)
                      = ListedNames(round.results[p].models)
                 /\ \A n \in ListedNames(round.results[p].models) :
                      modelKey(p, n) \in DOMAIN modelMetadata'
                 /\ \A n \in CataloguedNames(allModels, p)
                              \ ListedNames(round.results[p].models) :
                      modelKey(p, n) \notin DOMAIN modelMetadata']_vars

\* ------------------------------------------------------- failing fetches
\* C8 - refresh() never fails because provider fetches fail: whichever
\* providers' fetches throw, answer with a non-success status or with a
\* malformed payload (all of them included), no provider task is rejected,
\* each such provider counts as having returned zero models, the round's
\* promise is never rejected and no refresh() call returns rejected.
RefreshNeverFails ==
  /\ round.status # "rejected"
  /\ returned.outcome # "rejected"
  /\ \A p \in FetchTable :
       /\ round.results[p].state # "rejected"
       /\ round.results[p].threw => Len(round.results[p].models) = 0

\* Every listing request of the round threw, and the round's promise is
\* fulfilled with the timestamp set.
EveryFetchThrewRoundFulfilled ==
  /\ round.status = "fulfilled"
  /\ lastRefreshAt = now
  /\ \E p \in FetchTable : IssuesRequest(p)
  /\ \A p \in FetchTable : IssuesRequest(p) => round.results[p].threw

\* ------------------------------------------------------ in-flight marker
\* C9 - The in-flight marker is set exactly while a refresh round is
\* executing: it is set when the round starts and cleared when the round
\* finishes, so that no call ever finds the marker holding a finished round.
MarkerSetExactlyWhileExecuting ==
  (currentRefresh # NoRefresh) <=> RoundExecuting

\* ---------------------------------------------------- catalog and metadata
\* C10 - In every reachable state every (provider, model) key present in the
\* catalog has a metadata record.
EveryCatalogKeyHasMetadata ==
  \A p \in DOMAIN allModels :
    \A n \in DOMAIN allModels[p] :
      modelKey(p, n) \in DOMAIN modelMetadata

\* ---------------------------------------------------------------- resolver
\* Whether the catalog `am` holds the key a reference names.
Catalogued(am, ref) ==
  /\ ref # None
  /\ ref[1].provider \in DOMAIN am
  /\ ref[1].model \in OwnKeys(am[ref[1].provider])

LazyRef == Ref(Str("ollama"), Str("Mistral"))
UnknownRef == Ref(Str("unknown-provider"), Str("x"))
InheritedRef == Ref(InheritedKey, Str("x"))
FallbackRef == Ref(fallbackProvider, fallbackModelName)

\* C11 - Whenever the catalog holds the referenced key, getModel returns the
\* stored handle instance, builds no handle and leaves catalog, metadata and
\* reverse index as they are; a second getModel with the same reference
\* returns the identical instance.
CataloguedReturnedAsStored ==
  \A ref \in ChatModels :
    Catalogued(allModels, ref)
      => LET got == getModel(TheStore, ref)
         IN /\ got.model = Some(allModels[ref[1].provider][ref[1].model])
            /\ got.store = TheStore
            /\ getModel(got.store, ref).model = got.model

\* A key that an earlier getModel registered lazily is catalogued, and
\* getModel returns the instance the catalog holds for it.
LazyKeyResolvedAgain ==
  /\ Catalogued(allModels, LazyRef)
  /\ getModel(TheStore, LazyRef).model
       = Some(allModels[Str("ollama")][Str("Mistral")])

\* C12 - getModel without a reference, and getModel with a reference whose
\* key is not catalogued and whose provider has no factory, raise no error
\* and return the fallback handle: the instance held under (openai, gpt-4.1)
\* when that key is catalogued (nothing is built or changed then), else an
\* instance that is registered under (openai, gpt-4.1) by the call.
FallbackForNoneAndUnknown ==
  \A ref \in {None, UnknownRef, InheritedRef} :
    LET got == getModel(TheStore, ref)
    IN /\ got.model # None
       /\ Catalogued(got.store.allModels, FallbackRef)
       /\ got.store.allModels[fallbackProvider][fallbackModelName]
            = got.model[1]
       /\ Catalogued(allModels, FallbackRef)
            => /\ got.model[1] = allModels[fallbackProvider][fallbackModelName]
               /\ got.store = TheStore

\* C13 - In every reachable state getModel returns a handle for every
\* reference (none, catalogued, uncatalogued with a factory, a provider
\* without a factory): the 'Fallback model is not available' error is unreachable as
\* long as the fallback provider has a factory, also after a refresh removed
\* the fallback key from the catalog.
EveryReferenceResolves ==
  /\ fallbackProvider \in providerFactories
  /\ \A ref \in ChatModels : getModel(TheStore, ref).model # None

\* ------------------------------------------------------------ registration
\* Keys and RegisterOptions a registration is tried with: a deny-list key and
\* the fallback key; options that supply everything, nothing, or a display
\* name only, with a caller-built handle or with none (the factory then
\* builds one).
RegisteredKeys ==
  { [provider |-> Str("ollama"), name |-> Str("gemma3:1b")],
    [provider |-> fallbackProvider, name |-> fallbackModelName] }
RegisterOptions(k) ==
  LET flagged == [displayName |-> Some(Str("First")), apiName |-> None,
                  isToolCallUnsupported |-> Some(~(modelKey(k.provider, k.name)
                                             \in fallbackToolUnsupportedKeys)),
                  isImageInputUnsupported |->
                    Some(k.provider \in imageInputSupportedProviders),
                  model |-> None]
      named == [NoOptions EXCEPT !.displayName = Some(Str("Second"))]
      built(tag) == Some([p |-> k.provider, n |-> k.name, g |-> tag])
  IN { flagged, [flagged EXCEPT !.model = built(-1)],
       NoOptions, [named EXCEPT !.model = built(-2)] }

\* C14 - Registering one (provider, model) key twice with different handles
\* leaves one catalog entry under that key, holding the second handle (the
\* provider's other entries are those the first registration left), and the
\* key's metadata record is the one the second registration alone produces:
\* display name and both flags replaced, nothing merged from the first.
SecondRegistrationWins ==
  \A k \in RegisteredKeys :
    \A first, second \in RegisterOptions(k) :
      LET S1 == registerModel(TheStore, k.provider, k.name, first)
          S2 == registerModel(S1, k.provider, k.name, second)
          alone == registerModel(EmptyStore, k.provider, k.name, second)
          key == modelKey(k.provider, k.name)
          h1 == S1.allModels[k.provider][k.name]
          h2 == S2.allModels[k.provider][k.name]
      IN h1 # h2
           => /\ DOMAIN S2.allModels = DOMAIN S1.allModels
              /\ DOMAIN S2.allModels[k.provider]
                   = DOMAIN S1.allModels[k.provider]
              /\ \A n \in DOMAIN S1.allModels[k.provider] \ {k.name} :
                   S2.allModels[k.provider][n] = S1.allModels[k.provider][n]
              /\ second.model # None => h2 = second.model[1]
              /\ second.model = None => h2 \notin DOMAIN S1.modelInstanceLookup
              /\ S2.modelMetadata[key] = alone.modelMetadata[key]
              /\ S2.modelInstanceLookup[h2] = key

\* One listing named gemma3:1b twice, so one round registered the key twice:
\* the catalog holds the handle built last, with the record a single
\* registration of that entry produces.
KeyRegisteredTwiceByListing ==
  LET provider == Str("ollama")
      name == Str("gemma3:1b")
      key == modelKey(provider, name)
  IN /\ round.status = "fulfilled"
     /\ Len(round.results[provider].models) = 2
     /\ Catalogued(allModels, Ref(provider, name))
     /\ allModels[provider][name].g = 3
     /\ modelMetadata[key]
          = registerModel(EmptyStore, provider, name,
              [NoOptions EXCEPT !.displayName = Some(name)]).modelMetadata[key]

\* ------------------------------------------------------------- capability
\* C15 - isToolCallUnsupported(handle) is true for the handle currently
\* registered under any deny-list key, whether the seed, a refresh or a lazy
\* getModel registered it (none of them passes a flag that differs from the
\* deny list), and false for a handle that was never registered.
DenyListedHandlesFlagged ==
  /\ \A p \in DOMAIN allModels :
       \A n \in DOMAIN allModels[p] :
         modelKey(p, n) \in fallbackToolUnsupportedKeys
           => isToolCallUnsupportedModel(TheStore, allModels[p][n])
  /\ LET got == getModel(TheStore, Ref(Str("ollama"), Str("gemma3:4b")))
     IN isToolCallUnsupportedModel(got.store, got.model[1])
  /\ \A h \in {NewHandle(TheStore, Str("ollama"), Str("gemma3:1b")),
                [p |-> Str("ollama"), n |-> Str("gemma3:1b"), g |-> -1]} :
       /\ h \notin DOMAIN modelInstanceLookup
       /\ ~isToolCallUnsupportedModel(TheStore, h)

\* A refresh replaced the ollama entries by a listing of gemma3:1b: the
\* handle it built is flagged, the seeded gemma3:4b is gone and a lazy
\* getModel would register it flagged again.
DenyListedKeyRefreshed ==
  /\ lastRefreshAt # 0
  /\ Catalogued(allModels, Ref(Str("ollama"), Str("gemma3:1b")))
  /\ ~Catalogued(allModels, Ref(Str("ollama"), Str("gemma3:4b")))
  /\ allModels[Str("ollama")][Str("gemma3:1b")].g > 1
  /\ isToolCallUnsupportedModel(TheStore,
                                allModels[Str("ollama")][Str("gemma3:1b")])

\* ----------------------------------------------------------------- summary
\* The summary a reader gets in the current state.
modelsInfo ==
  buildModelsInfo(TheStore, providerHasExplicitKey(openaiCompatibleProviders),
                  env)

\* C16 - In every reachable state the catalog summary lists one entry per
\* catalogued (provider, model) key and none for any other key (also after
\* a listing that repeats a model name was applied), the models of each
\* provider in case-insensitive order of their display label (the display
\* name if there is one that differs from the name, else the name) and the
\* providers in the order of their identifiers.
SummaryListsCatalogSorted ==
  LET info == modelsInfo
  IN /\ Len(info) = Cardinality(DOMAIN allModels)
     /\ {info[i].provider : i \in 1..Len(info)} = DOMAIN allModels
     /\ \A i \in 1..(Len(info) - 1) :
          PrimaryRank(info[i].provider) < PrimaryRank(info[i + 1].provider)
     /\ \A i \in 1..Len(info) :
          LET listed == info[i].models
              held == allModels[info[i].provider]
          IN /\ Len(listed) = Cardinality(DOMAIN held)
             /\ {listed[j].name : j \in 1..Len(listed)} = DOMAIN held
             /\ \A j \in 1..(Len(listed) - 1) :
                  PrimaryRank(Label(listed[j]))
                    <= PrimaryRank(Label(listed[j + 1]))

\* A listing that named gemma3:1b twice was applied and getModel then
\* registered Mistral: the summary lists the two ollama keys once each, the
\* lower-case label first.
SummaryAfterRepeatedListing ==
  /\ round.status = "fulfilled"
  /\ Len(round.results[Str("ollama")].models) = 2
  /\ Catalogued(allModels, LazyRef)
  /\ \E i \in 1..Len(modelsInfo) :
       /\ modelsInfo[i].provider = Str("ollama")
       /\ Len(modelsInfo[i].models) = 2
       /\ modelsInfo[i].models[1].name = Str("gemma3:1b")
       /\ modelsInfo[i].models[2].name = Str("Mistral")

\* The model names the seed table lists for a provider.
SeededNames(provider) ==
  UNION {{staticModelSeed[i].models[j].name :
            j \in 1..Len(staticModelSeed[i].models)} :
           i \in {k \in 1..Len(staticModelSeed) :
                    staticModelSeed[k].provider = provider}}

CompletionStampsAndThrottles ==
  [][/\ RoundApplies
          => /\ lastRefreshAt' = now
             /\ refreshDecision(FALSE, now', lastRefreshAt', currentRefresh')
                  = "throttled"
     /\ \A c \in Callers :
          (/\ Refresh(c, FALSE)
           /\ lastRefreshAt # 0
           /\ now < lastRefreshAt + RefreshInterval)
            => /\ returned'.how = "throttled"
               /\ call'[c].pc = "idle"
               /\ round' = round]_vars

\* A round in which no provider returned a model has completed: the catalog
\* is the one of startup, the timestamp is the completion time and a
\* non-forced call made since was throttled.
StampedWithoutCatalogChange ==
  /\ round.status = "fulfilled"
  /\ \A p \in FetchTable : Len(round.results[p].models) = 0
  /\ \E p \in FetchTable : round.results[p].threw
  /\ allModels = StartupStore(openaiCompatibleProviders).allModels
  /\ lastRefreshAt = now
  /\ returned.how = "throttled"

\* ------------------------------------------------------------- atomicity
\* What a reader can see of one provider is whole: the provider is in the
\* catalog with at least one entry, and every entry has its metadata record
\* and its reverse-index entry.
ProviderWhole(p) ==
  /\ p \in DOMAIN allModels
  /\ DOMAIN allModels[p] # {}
  /\ \A n \in DOMAIN allModels[p] :
       /\ modelKey(p, n) \in DOMAIN modelMetadata
       /\ allModels[p][n] \in DOMAIN modelInstanceLookup
       /\ modelInstanceLookup[allModels[p][n]] = modelKey(p, n)

\* C19 - No reader (getModel, summary), in any interleaving with a refresh
\* round, sees a provider cleared and not yet repopulated: in every state
\* each provider of the fetch table is in the catalog with entries that are
\* whole, and the names catalogued for a provider change only in one step
\* from the previous set to exactly the names the provider's listing
\* returned, or by the one name a getModel call adds.
ReplacementAtomicForReaders ==
  /\ [](\A p \in FetchTable : ProviderWhole(p))
  /\ [][\A p \in FetchTable :
          CataloguedNames(allModels', p) # CataloguedNames(allModels, p)
            => \/ /\ RoundApplies
                  /\ Len(round.results[p].models) > 0
                  /\ CataloguedNames(allModels', p)
                       = ListedNames(round.results[p].models)
               \/ /\ \E ref \in ChatModels : GetModel(ref)
                  /\ CataloguedNames(allModels, p)
                       \subseteq CataloguedNames(allModels', p)
                  /\ Cardinality(CataloguedNames(allModels', p)
                                   \ CataloguedNames(allModels, p)) = 1]_vars

\* A round has replaced the openai entries by its listing: getModel finds
\* the listed model and the summary lists openai with that one model.
ReplacedProviderObserved ==
  /\ round.status = "fulfilled"
  /\ ListedNames(round.results[Str("openai")].models) = {Str("gpt-6")}
  /\ DOMAIN allModels[Str("openai")] = {Str("gpt-6")}
  /\ getModel(TheStore, Ref(Str("openai"), Str("gpt-6"))).model
       = Some(allModels[Str("openai")][Str("gpt-6")])
  /\ \E i \in 1..Len(modelsInfo) :
       /\ modelsInfo[i].provider = Str("openai")
       /\ Len(modelsInfo[i].models) = 1
       /\ modelsInfo[i].models[1].name = Str("gpt-6")

\* ------------------------------------------------------- slow providers
\* C20 - Within a round a slow provider does not hold back the catalog
\* update of a faster one: as soon as a provider's fetch has returned at
\* least one model, while the round is still waiting for other providers,
\* the catalog holds the returned models under that provider.
FasterProviderAppliedAtOnce ==
  \A p \in FetchTable :
    (/\ round.status = "fetching"
     /\ round.results[p].state = "settled"
     /\ Len(round.results[p].models) > 0
     /\ \E q \in FetchTable : round.results[q].state = "pending")
      => ListedNames(round.results[p].models)
           \subseteq CataloguedNames(allModels, p)

\* ------------------------------------------------------------ hung fetch
\* C21 - A listing request that never answers is downgraded to zero models
\* for its provider: the round it belongs to still completes and the
\* in-flight marker is cleared, so that later refresh() callers are not
\* blocked.
HungFetchRoundCompletes ==
  (round.status = "fetching")
    ~> (round.status = "fulfilled" /\ currentRefresh = NoRefresh)

\* ------------------------------------------------------- credential check
\* The credential check as the running program evaluates it.
Credentialed(p) ==
  checkProviderAPIKey(p, providerHasExplicitKey(openaiCompatibleProviders),
                      env)[1]

\* C22 - In a refresh round no listing request is started for a provider
\* whose credential check fails: no step issues a request for it, and the
\* step that starts a round records it as having returned zero models.
NoFetchWithoutCredential ==
  [][\A p \in FetchTable :
       ~Credentialed(p)
         => /\ fetchCount'[p] = fetchCount[p]
            /\ outstanding'[p] = 0
            /\ round'.id # round.id
                 => /\ round'.results[p].state # "pending"
                    /\ round'.results[p].models = << >>
                    /\ ~round'.results[p].threw]_vars

\* A round is fetching: the request of the credentialed openai is under way
\* and google, whose key is not set, has its zero models recorded without a
\* request.
UncredentialedProviderSkipped ==
  /\ round.status = "fetching"
  /\ Credentialed(Str("openai"))
  /\ outstanding[Str("openai")] = 1
  /\ ~Credentialed(Str("google"))
  /\ round.results[Str("google")].state = "skipped"
  /\ round.results[Str("google")].models = << >>
  /\ fetchCount[Str("google")] = 0

\* -------------------------------------------------------- lazy resolution
\* C23 - getModel with a reference that the catalog does not hold and whose
\* provider has a factory builds a new handle with that factory, registers
\* it under the referenced key together with a metadata record and a
\* reverse-index entry, and returns it; a following getModel with the same
\* reference returns that instance and builds and changes nothing.
LazyResolutionRegisters ==
  \A ref \in ChatModels \ {None} :
    (/\ ~Catalogued(allModels, ref)
     /\ ref[1].provider \in providerFactories)
      => LET got == getModel(TheStore, ref)
             key == modelKey(ref[1].provider, ref[1].model)
             again == getModel(got.store, ref)
         IN /\ got.model = Some(NewHandle(TheStore, ref[1].provider,
                                           ref[1].model))
            /\ got.model[1] \notin DOMAIN modelInstanceLookup
            /\ Catalogued(got.store.allModels, ref)
            /\ got.store.allModels[ref[1].provider][ref[1].model]
                 = got.model[1]
            /\ key \in DOMAIN got.store.modelMetadata
            /\ got.store.modelInstanceLookup[got.model[1]] = key
            /\ again.model = got.model
            /\ again.store = got.store

\* --------------------------------------------------------------- fallback
\* C24 - Fallback resolution order: when (openai, gpt-4.1) is catalogued the
\* fallback is the stored handle and nothing is built or changed; when it is
\* absent the fallback is a new handle of the openai factory, registered
\* under (openai, gpt-4.1) next to the entries openai had, so that the key
\* is catalogued afterwards; an error is raised only when the fallback
\* provider has no factory.
FallbackResolutionOrder ==
  LET fb == fallbackModel(TheStore)
      key == modelKey(fallbackProvider, fallbackModelName)
      had == IF fallbackProvider \in DOMAIN allModels
             THEN allModels[fallbackProvider] ELSE EmptyMap
  IN /\ Catalogued(allModels, FallbackRef)
          => /\ fb.model = Some(allModels[fallbackProvider][fallbackModelName])
             /\ fb.store = TheStore
     /\ ~Catalogued(allModels, FallbackRef)
          => /\ fb.model = Some(NewHandle(TheStore, fallbackProvider,
                                          fallbackModelName))
             /\ Catalogued(fb.store.allModels, FallbackRef)
             /\ fb.store.allModels[fallbackProvider]
                  = Put(had, fallbackModelName, fb.model[1])
             /\ key \in DOMAIN fb.store.modelMetadata
             /\ fb.store.modelInstanceLookup[fb.model[1]] = key
             /\ fallbackModel(fb.store) = [model |-> fb.model,
                                           store |-> fb.store]
     /\ fb.model = None => fallbackProvider \notin providerFactories

\* An openai listing without gpt-4.1 was applied and the fallback was
\* resolved afterwards: openai holds the listed model and the fallback key,
\* and resolving the fallback again changes nothing.
FallbackBuiltAndCatalogued ==
  /\ lastRefreshAt # 0
  /\ DOMAIN allModels[fallbackProvider] = {Str("gpt-6"), fallbackModelName}
  /\ modelKey(fallbackProvider, fallbackModelName) \in DOMAIN modelMetadata
  /\ fallbackModel(TheStore).store = TheStore

\* ----------------------------------------------------- unknown capability
\* The store while a caller still holds handle `model`, which was registered
\* under `key`: the WeakMap keeps the entry of a handle that is alive.
WhileHeld(S, model, key) ==
  IF Has(S.modelInstanceLookup, model) THEN S
  ELSE Store(S.allModels, S.modelMetadata,
             Put(S.modelInstanceLookup, model, key))

\* The handles the seed loop built, with the keys it registered them under.
SeededHandles ==
  {[model |-> [p |-> staticModelSeed[i].provider, n |-> name, g |-> 1],
    key |-> modelKey(staticModelSeed[i].provider, name)] :
     <<i, name>> \in
       UNION {{<<k, m>> : m \in SeededNames(staticModelSeed[k].provider)} :
                k \in 1..Len(staticModelSeed)}}

\* C25 - isToolCallUnsupported(handle) never fails and is false whenever the
\* handle has no reverse-index entry or its key has no metadata record; in
\* particular it is false for a handle obtained before a refresh that
\* removed the handle's key, also when that key is on the deny list.
UnknownHandleReadsSupported ==
  /\ \A h \in DOMAIN modelInstanceLookup
              \cup {[p |-> Str("ollama"), n |-> Str("gemma3:1b"), g |-> -1]} :
       (\/ h \notin DOMAIN modelInstanceLookup
        \/ modelInstanceLookup[h] \notin DOMAIN modelMetadata)
         => isToolCallUnsupportedModel(TheStore, h) = FALSE
  /\ \A s \in SeededHandles :
       s.key \notin DOMAIN modelMetadata
         => isToolCallUnsupportedModel(WhileHeld(TheStore, s.model, s.key),
                                       s.model) = FALSE

\* A refresh replaced the ollama entries by a listing without gemma3:4b: the
\* key, which is on the deny list, has no metadata record any more, and the
\* handle the seed built for it reads as supporting tool calls.
RemovedDenyListKeyReadsSupported ==
  LET key == modelKey(Str("ollama"), Str("gemma3:4b"))
      held == [p |-> Str("ollama"), n |-> Str("gemma3:4b"), g |-> 1]
  IN /\ lastRefreshAt # 0
     /\ key \in fallbackToolUnsupportedKeys
     /\ key \notin DOMAIN modelMetadata
     /\ ~isToolCallUnsupportedModel(WhileHeld(TheStore, held, key), held)

\* ------------------------------------------------- lazy key and refresh
\* C26 - A key that getModel registered lazily under a provider survives a
\* refresh round that replaces only other providers: when the round applies
\* its results and the key's provider returned no models, the key, its
\* handle, its metadata record and its reverse-index entry are afterwards
\* what they were before.
LazyKeySurvivesOtherProviders ==
  [][LET provider == LazyRef[1].provider
         name == LazyRef[1].model
         key == modelKey(provider, name)
     IN (/\ RoundApplies
         /\ Catalogued(allModels, LazyRef)
         /\ Len(round.results[provider].models) = 0)
          => /\ Catalogued(allModels', LazyRef)
             /\ allModels'[provider][name] = allModels[provider][name]
             /\ DOMAIN allModels'[provider] = DOMAIN allModels[provider]
             /\ key \in DOMAIN modelMetadata'
             /\ modelMetadata'[key] = modelMetadata[key]
             /\ modelInstanceLookup'[allModels[provider][name]] = key]_vars

\* A round replaced the openai entries by its listing while ollama returned
\* no models; the lazily registered (ollama, Mistral) is still catalogued
\* with its metadata record.
LazyKeyKeptWhileOpenaiReplaced ==
  /\ round.status = "fulfilled"
  /\ Len(round.results[Str("openai")].models) > 0
  /\ Len(round.results[Str("ollama")].models) = 0
  /\ DOMAIN allModels[Str("openai")] = {Str("gpt-6")}
  /\ Catalogued(allModels, LazyRef)
  /\ modelKey(Str("ollama"), Str("Mistral")) \in DOMAIN modelMetadata

\* ----------------------------------------------------- clearProvider frame
\* C27 - clearProvider(P) removes every catalog entry and every metadata
\* record of provider P and leaves the catalog entries and the metadata
\* records of every other provider as they are, whatever the provider
\* identifiers are (also identifiers that contain '::' or start with another
\* provider's identifier).
ClearProviderTouchesOnlyItsProvider ==
  \A P \in DOMAIN allModels :
    LET cleared == clearProvider(TheStore, P)
    IN /\ P \notin DOMAIN cleared.allModels
       /\ \A n \in DOMAIN allModels[P] :
            modelKey(P, n) \notin DOMAIN cleared.modelMetadata
       /\ \A Q \in DOMAIN allModels \ {P} :
            /\ Q \in DOMAIN cleared.allModels
            /\ cleared.allModels[Q] = allModels[Q]
            /\ \A n \in DOMAIN allModels[Q] :
                 modelKey(Q, n) \in DOMAIN modelMetadata
                   => /\ modelKey(Q, n) \in DOMAIN cleared.modelMetadata
                      /\ cleared.modelMetadata[modelKey(Q, n)]
                           = modelMetadata[modelKey(Q, n)]

\* ------------------------------------------------ credential check result
\* Provider identifiers the credential check is asked about: static ones,
\* the configured one, one that no table knows, and one that every object
\* literal inherits.
CheckedProviders ==
  {Str("openai"), Str("google"), Str("ollama"), LabProvider[1].provider,
   Str("unknown-provider"), InheritedKey}

\* Override maps: none, the configured provider with and without a usable
\* key, and identifiers that coincide with a static provider.
ExplicitMaps ==
  {EmptyMap, providerHasExplicitKey(LabProvider),
   LabProvider[1].provider :> FALSE, Str("openai") :> FALSE,
   Str("ollama") :> FALSE, Str("google") :> TRUE}

\* C28 - The credential check of a provider recorded in the override map
\* returns the recorded value whatever the static checkers say, also for an
\* identifier that coincides with a static provider; a provider in neither
\* table is reported as credentialed. A refresh round skips exactly the
\* providers for which the check is false, and the summary's hasAPIKey of a
\* provider is the result of the check.
CredentialCheckOverrideFirst ==
  /\ \A p \in CheckedProviders, explicit \in ExplicitMaps :
       LET checked == checkProviderAPIKey(p, explicit, env)
       IN /\ Has(explicit, p) => checked = Some(explicit[p])
          /\ ~Has(explicit, p) /\ ~Has(providerKeyCheckers, p)
               => checked = Some(TRUE)
  /\ round.status = "fetching"
       => \A p \in FetchTable :
            round.results[p].state = "skipped"
              <=> checkProviderAPIKey(
                    p, providerHasExplicitKey(openaiCompatibleProviders),
                    env) = Some(FALSE)
  /\ LET info == modelsInfo
     IN \A i \in 1..Len(info) :
          Some(info[i].hasAPIKey)
            = checkProviderAPIKey(
                info[i].provider,
                providerHasExplicitKey(openaiCompatibleProviders), env)

\* ------------------------------------------- dynamically configured models
\* C29 - Every model of a dynamically configured provider is registered at
\* startup as image-input-unsupported, and with a tool-call-unsupported flag
\* that says whether its handle is in the unsupported set built with the
\* handles.
CompatModelsImageInputOff ==
  LET config == openaiCompatibleProviders
      S == StartupStore(config)
  IN \A i \in 1..Len(config) :
       \A j \in 1..Len(config[i].models) :
         LET provider == config[i].provider
             name == config[i].models[j].name
             key == modelKey(provider, name)
         IN /\ Has(S.allModels, provider)
            /\ Has(S.allModels[provider], name)
            /\ S.allModels[provider][name] = CompatHandle(provider, name)
            /\ Has(S.modelMetadata, key)
            /\ S.modelMetadata[key].isToolCallUnsupported
                 = (CompatHandle(provider, name)
                      \in openaiCompatibleUnsupportedModels(config))
            /\ S.modelMetadata[key].isImageInputUnsupported

\* ----------------------------------------------------------- flag defaults
\* Keys a registration is tried with: on and off the deny list, of providers
\* on and off the image-input allow list, and of a provider without factory.
FlagKeys ==
  { <<Str("openai"), Str("o4-mini")>>, <<Str("openai"), Str("gpt-6")>>,
    <<Str("ollama"), Str("gemma3:1b")>>, <<Str("groq"), Str("x")>>,
    <<LabProvider[1].provider, Str("phi")>> }

\* A flag as the caller passes it: not supplied, true, false.
FlagOptions == {None, Some(TRUE), Some(FALSE)}

\* C30 - A registration without explicit flags stores a tool-call-unsupported
\* flag that says whether the key is on the fixed deny list, and an
\* image-input-unsupported flag that is true exactly when the provider is
\* none of google, xai, openai, anthropic; a flag that is supplied, false
\* included, is stored as given.
RegisterStoresFlags ==
  \A k \in FlagKeys, tool \in FlagOptions, image \in FlagOptions :
    LET key == modelKey(k[1], k[2])
        S == registerModel(TheStore, k[1], k[2],
               [NoOptions EXCEPT
                  !.model = Some(CompatHandle(k[1], k[2])),
                  !.isToolCallUnsupported = tool,
                  !.isImageInputUnsupported = image])
        stored == S.modelMetadata[key]
    IN /\ Has(S.modelMetadata, key)
       /\ tool = None
            => stored.isToolCallUnsupported
                 = (key \in fallbackToolUnsupportedKeys)
       /\ tool # None => stored.isToolCallUnsupported = tool[1]
       /\ image = None
            => stored.isImageInputUnsupported
                 = (k[1] \notin {Str("google"), Str("xai"), Str("openai"),
                                 Str("anthropic")})
       /\ image # None => stored.isImageInputUnsupported = image[1]

\* The catalog holds records of both kinds: (ollama, Mistral), registered by
\* getModel without flags, has the defaults of a key off the deny list and a
\* provider off the allow list, the seeded deny-list key (openai, o4-mini)
\* has the defaults true and false, and the configured model, registered
\* with an explicit false, is recorded as supporting image input.
DefaultAndExplicitFlagsStored ==
  LET lazy == modelKey(Str("ollama"), Str("Mistral"))
      denied == modelKey(Str("openai"), Str("o4-mini"))
      given == modelKey(LabProvider[1].provider, Str("phi"))
  IN /\ lazy \in DOMAIN modelMetadata
     /\ ~modelMetadata[lazy].isToolCallUnsupported
     /\ modelMetadata[lazy].isImageInputUnsupported
     /\ denied \in DOMAIN modelMetadata
     /\ modelMetadata[denied].isToolCallUnsupported
     /\ ~modelMetadata[denied].isImageInputUnsupported
     /\ given \in DOMAIN modelMetadata
     /\ ~modelMetadata[given].isImageInputUnsupported

\* ------------------------------------------------------- provider set
\* The providers of the static directory and those configured at startup.
StaticProviders == providerFactories
ConfiguredProviders ==
  {openaiCompatibleProviders[i].provider :
     i \in 1..Len(openaiCompatibleProviders)}

\* C31 - The set of providers is fixed after startup: in every reachable
\* state every provider of the catalog is a provider of the static directory
\* or one configured at startup, the catalog holds the providers it held when
\* startup was over, and getModel, whatever reference it is given, leaves
\* the catalog with the same providers.
ProviderSetFixed ==
  /\ DOMAIN allModels \subseteq StaticProviders \cup ConfiguredProviders
  /\ DOMAIN allModels
       = DOMAIN StartupStore(openaiCompatibleProviders).allModels
  /\ \A ref \in ChatModels :
       DOMAIN getModel(TheStore, ref).store.allModels = DOMAIN allModels

\* A refresh replaced the openai entries by a listing without gpt-4.1, and
\* getModel calls afterwards registered the fallback again and (ollama,
\* Mistral): the catalog has the providers it started with.
ProvidersSameAfterRefreshAndLookups ==
  /\ lastRefreshAt # 0
  /\ Str("gpt-6") \in DOMAIN allModels[fallbackProvider]
  /\ Catalogued(allModels, FallbackRef)
  /\ Catalogued(allModels, LazyRef)
  /\ DOMAIN allModels
       = DOMAIN StartupStore(openaiCompatibleProviders).allModels

\* ---------------------------------------------------------------- liveness
\* C32 - When every listing request that was started is answered in the end,
\* every refresh() call returns in the end (a throttled call returns in the
\* step that makes it; a call that started or joined a round waits and then
\* returns), and a marker that is set is empty again in the end.
RefreshCallsReturn ==
  /\ \A c \in Callers : (call[c].pc = "awaiting") ~> (call[c].pc = "idle")
  /\ (currentRefresh # NoRefresh) ~> (currentRefresh = NoRefresh)

\* A call that joined the round has returned after the round was fulfilled
\* and its starter cleared the marker; no call is waiting.
JoinedCallReturnedMarkerEmpty ==
  /\ returned = [how |-> "joined", outcome |-> "resolved"]
  /\ round.status = "fulfilled"
  /\ lastRefreshAt # 0
  /\ currentRefresh = NoRefresh
  /\ \A c \in Callers : call[c].pc = "idle"

\* ------------------------------------------------ tool flag of static keys
\* C33 - In every reachable state every catalogued key of a static provider
\* that is not configured dynamically has a metadata record whose
\* tool-call-unsupported flag says whether the key is on the deny list: what
\* the seed stored is what refresh rounds and lazy registrations store.
StaticKeysFlaggedByDenyList ==
  \A p \in (DOMAIN allModels) \cap (StaticProviders \ ConfiguredProviders) :
    \A n \in DOMAIN allModels[p] :
      /\ modelKey(p, n) \in DOMAIN modelMetadata
      /\ modelMetadata[modelKey(p, n)].isToolCallUnsupported
           = (modelKey(p, n) \in fallbackToolUnsupportedKeys)

\* A refresh registered (ollama, gemma3:1b) again from a listing and getModel
\* registered (ollama, Mistral) afterwards: the first is flagged, the second
\* is not.
DenyListFlagsAfterRefreshAndLookup ==
  /\ lastRefreshAt # 0
  /\ Catalogued(allModels, Ref(Str("ollama"), Str("gemma3:1b")))
  /\ allModels[Str("ollama")][Str("gemma3:1b")].g > 1
  /\ modelMetadata[modelKey(Str("ollama"), Str("gemma3:1b"))]
       .isToolCallUnsupported
  /\ Catalogued(allModels, LazyRef)
  /\ ~modelMetadata[modelKey(Str("ollama"), Str("Mistral"))]
        .isToolCallUnsupported

\* ------------------------------------------------- providers without models
\* C34 - In every reachable state every provider of the catalog has at least
\* one model, also right after a round applied its results, and no provider
\* of the summary has an empty model list.
EveryProviderHasModel ==
  /\ \A p \in DOMAIN allModels : OwnKeys(allModels[p]) # {}
  /\ LET info == modelsInfo
     IN \A i \in 1..Len(info) : Len(info[i].models) > 0

\* ------------------------------------------------------- component files
Succeeded(c) == request[c].pc = "created"

\* C35: createComponentFile never overwrites an existing file: no step
\* changes the content of a file that exists, of the calls that name one
\* path at most one succeeds, and the file holds the content of the call
\* that succeeded.
CreateNeverOverwrites ==
  [][/\ \A p \in DOMAIN files : p \in DOMAIN files' /\ files'[p] = files[p]
     /\ \A c, d \in Clients :
          (c # d /\ Succeeded(c)' /\ Succeeded(d)')
            => request'[c].fullPath # request'[d].fullPath
     /\ \A c \in Clients :
          Succeeded(c)'
            => /\ request'[c].fullPath.segs \in DOMAIN files'
               /\ files'[request'[c].fullPath.segs] = request'[c].content]_vars

\* A call whose path resolveFilePath accepted, and the category it named.
Accepted(c) == request[c].pc # "idle" /\ request[c].fullPath # NoPath
CategoryOf(c) == categoriesById[request[c].categoryId]
\* `p` names something below `directory`.
Under(p, directory) ==
  Len(p.segs) > Len(directory) /\ startsWith(p.segs, directory)

\* C36: a relative path that resolveFilePath accepts for the structural
\* category never resolves to a file under one of the excluded top-level
\* directories, and for every category the resolved full path lies inside
\* the directory of the category.
ResolvedOutsideExcluded ==
  \A c \in Clients :
    Accepted(c) =>
      /\ request[c].categoryId = "structural"
           => \A top \in ExcludedTopLevel :
                ~Under(request[c].fullPath, componentsRoot \o <<top>>)
      /\ startsWith(request[c].fullPath.segs, CategoryOf(c).directory)

====
